---- MODULE Spec2Model ----
(***************************************************************************)
(* A model of the Google Translate starred-words scraper extension:        *)
(*   - the scrape run of ScrapingController (scraper.js) as started by the *)
(*     background service worker (background.js), over TabManager          *)
(*     (tab-manager.js) and the browser's tabs;                            *)
(*   - the settings / alarm handling of background.js and popup.js;        *)
(*   - the Google Sheets sync of background.js over GoogleSheetsAPI        *)
(*     (sheets-api.js) and AuthManager (auth.js).                          *)
(* Each subsystem has its own specification over the shared variables.     *)
(***************************************************************************)
EXTENDS Integers, Sequences, FiniteSets, TLC

(***************************************************************************)
(* Bounds of the model.                                                    *)
(***************************************************************************)
\* scrape pipelines (alarm firings / manualScrape messages) that may be started
MaxRuns == 2
\* times the user presses save in the popup
MaxSaves == 1
\* syncs to the spreadsheet that may be requested
MaxSyncs == 2
\* minutes the clock may advance
MaxNow == 3
\* words that may be stored in 'scrapedWords'
MaxWords == 2

(***************************************************************************)
(* Program constants.                                                      *)
(***************************************************************************)
\* SCRAPER_CONFIG.MAX_RETRIES
MAX_RETRIES == 3
\* SCRAPER_CONFIG.RETRY_DELAY_BASE (ms)
RETRY_DELAY_BASE == 2000

Runs == 1..MaxRuns

VARIABLES
    pc,             \* per run: where its pipeline stands
    ctl,            \* per run: the fields of its ScrapingController
    attemptResult,  \* per run: what its last executeSingleScrapingAttempt returned
    result,         \* per run: what executeGoogleTranslateScraping returned
    delays,         \* per run: the backoff delays it has waited, in order
    statsSnap,      \* per run: the settings object updateScrapingStats read
    tabs,           \* the tabs chrome.tabs.create has made
    settings,       \* chrome.storage.local 'settings'
    alarm,          \* periodInMinutes of the 'scrapeStarredWords' alarm, 0 when there is none
    popup,          \* the popup's saveSettings: where it stands, the form, what it will store
    saved,          \* the settings the popup stored last
    apc,            \* per background procedure: where it stands
    aset,           \* per background procedure: the settings object it holds
    hchanged,       \* handleSettingsUpdate's alarmSettingsChanged
    resp,           \* the response to the last 'settingsUpdated' message
    sync,           \* syncDataToGoogleSheets: where it stands and its local values
    sres,           \* what the last syncDataToGoogleSheets returned
    requests,       \* the HTTP requests the current sync has issued, in order
    auth,           \* chrome.storage.local 'google_auth_token' and 'google_token_info'
    now,            \* Date.now(), in minutes
    words,          \* the number of words in chrome.storage.local 'scrapedWords'
    req,            \* one GoogleSheetsAPI.makeRequest call and its retries
    ext,            \* the content script: extractWithRetry and main
    wait,           \* one ScrapingController.waitForExtractionResults promise
    msgs,           \* the messages delivered to the background's onMessage listener
    dp,             \* one call of a DataProcessor method: its input and its result
    tm,             \* one call of TabManager.createAndNavigateToGoogleTranslate
    am,             \* the AuthManager: its state, its authPromise, the calls in progress
    sw              \* chrome.storage.local 'scrapedWords' and the pipelines storing into it

scrapeVars == <<pc, ctl, attemptResult, result, delays, statsSnap, tabs>>
alarmVars == <<alarm, popup, saved, apc, aset, hchanged, resp>>
syncVars == <<sync, sres, requests, auth, now, words>>
unitVars == <<req, ext, wait, msgs, dp, tm, am, sw>>
vars == <<pc, ctl, attemptResult, result, delays, statsSnap, tabs, settings,
          alarm, popup, saved, apc, aset, hchanged, resp,
          sync, sres, requests, auth, now, words,
          req, ext, wait, msgs, dp, tm, am, sw>>

(***************************************************************************)
(* The methods the classes define.  A call of a method a class does not    *)
(* define throws a TypeError at the call.                                  *)
(***************************************************************************)
TabManagerMethods ==
    { "createAndNavigateToGoogleTranslate", "createHiddenTab", "waitForPageLoad",
      "isValidGoogleTranslateUrl", "cleanupTab", "cleanupAllTabs", "getTabStatus",
      "getAllTabsStatus", "updateTabState", "clearTabTimeout", "injectContentScript" }

(***************************************************************************)
(* How the browser and the page answer one attempt.  `create` is the       *)
(* outcome of chrome.tabs.create; `load` what chrome.tabs.get reports for  *)
(* a navigated tab; `inject` the outcome of chrome.scripting.executeScript;*)
(* `msg` the 'starredWordsExtracted' message of the content script:        *)
(* "good" (success=true with a words array), "failed" (success=false),     *)
(* "none" (no message before the timeout).                                 *)
(***************************************************************************)
Cooperative == [create |-> TRUE, load |-> TRUE, inject |-> TRUE, msg |-> "good"]

BrowserBehaviours ==
    { Cooperative,
      [Cooperative EXCEPT !.create = FALSE],
      [Cooperative EXCEPT !.load = FALSE],
      [Cooperative EXCEPT !.msg = "none"] }

NoBehaviour == [create |-> FALSE, load |-> FALSE, inject |-> FALSE, msg |-> "none"]

\* chrome.tabs.create({url: undefined}) opens the browser's new-tab page
NoUrl == "chrome://newtab"

NoAttempt ==
    [ran |-> FALSE, success |-> FALSE, error |-> "", tabCreated |-> FALSE,
     navigated |-> FALSE, injected |-> FALSE, words |-> FALSE, browser |-> NoBehaviour]

NoResult == [returned |-> FALSE, success |-> FALSE, error |-> "", attempt |-> 0]

\* new ScrapingController()
\* a tab is named by the pipeline and the attempt that made it
NoTab == <<0, 0>>

NewScrapingController ==
    [isRunning |-> FALSE, retryCount |-> 0, currentTabId |-> NoTab, tabManager |-> FALSE]

\* DEFAULT_SETTINGS, with scrapingStats.totalAttempts for the statistics
DefaultSettings ==
    [isEnabled |-> TRUE, scrapeInterval |-> 30, googleSheetsId |-> <<>>,
     autoSync |-> TRUE, totalAttempts |-> 0,
     sheetsSync |-> [lastSyncStatus |-> "", totalSyncs |-> 0, lastSyncedWordCount |-> 0]]

(***************************************************************************)
(* executeSingleScrapingAttempt from the point where createHiddenTab has   *)
(* resolved with a tab: the rest of the try block, and the catch that      *)
(* turns every throw into a failure result.                                *)
(***************************************************************************)
AttemptAfterTabCreated(b) ==
    LET fail(msg, nav, inj) ==
            [ran |-> TRUE, success |-> FALSE, error |-> msg, tabCreated |-> TRUE,
             navigated |-> nav, injected |-> inj, words |-> FALSE, browser |-> b]
    IN  IF "navigateToUrl" \notin TabManagerMethods
        THEN fail("this.tabManager.navigateToUrl is not a function", FALSE, FALSE)
        \* waitForPageLoad resolves with {success: false} on a failed load and its
        \* value is not looked at: the attempt goes on to inject
        ELSE IF ~b.inject
        THEN fail("Content script injection failed", TRUE, FALSE)
        ELSE IF b.msg = "none"
        THEN fail("Extraction results timeout", TRUE, TRUE)
        ELSE IF b.msg = "failed"
        THEN fail("Data validation failed", TRUE, TRUE)
        ELSE [ran |-> TRUE, success |-> TRUE, error |-> "", tabCreated |-> TRUE,
              navigated |-> TRUE, injected |-> TRUE, words |-> TRUE, browser |-> b]

\* createHiddenTab threw: the catch of executeSingleScrapingAttempt
AttemptTabCreationFailed(b) ==
    [ran |-> TRUE, success |-> FALSE, error |-> "Failed to create hidden tab",
     tabCreated |-> FALSE, navigated |-> FALSE, injected |-> FALSE, words |-> FALSE,
     browser |-> b]

\* a loop bound off by one: attempt <= MAX_RETRIES
ShouldRetryOffByOne(attempt) == attempt <= MAX_RETRIES

\* the for loop of executeGoogleTranslateScraping: after attempt `attempt` has
\* failed, is there another one?
ShouldRetry(attempt) == attempt < MAX_RETRIES

\* the delay before the attempt after `attempt`
\* a backoff that starts at twice the base
RetryDelayFromAttempt(attempt) == RETRY_DELAY_BASE * (2 ^ attempt)

RetryDelay(attempt) == RETRY_DELAY_BASE * (2 ^ (attempt - 1))

(***************************************************************************)
(* ScrapingController.cleanup, called from the finally block: the set of   *)
(* tabs it closes.  this.tabManager.cleanup is no method of TabManager, so *)
(* the call throws inside cleanup's try and nothing is closed; the fields  *)
(* are reset only on the path that does not throw.                         *)
(***************************************************************************)
CleanupCloses(c) ==
    IF c.tabManager /\ c.currentTabId # NoTab /\ "cleanup" \in TabManagerMethods
    THEN {c.currentTabId}
    ELSE {}

CleanupController(c) ==
    IF c.tabManager /\ c.currentTabId # NoTab /\ "cleanup" \notin TabManagerMethods
    THEN [c EXCEPT !.isRunning = FALSE]
    ELSE [c EXCEPT !.isRunning = FALSE, !.tabManager = FALSE, !.currentTabId = NoTab]

(***************************************************************************)
(* Spreadsheet IDs are strings; a string is the sequence of its            *)
(* characters, each a one-character string.                                *)
(***************************************************************************)
\* SHEETS_CONFIG.SPREADSHEET_ID_LENGTH, and the 44 of validateGoogleSheetsId
SPREADSHEET_ID_LENGTH == 44
\* the {10,} of the popup's isValidGoogleSheetsId
POPUP_MIN_ID_LENGTH == 10

\* [a-zA-Z0-9_-]
IdChars == {"a", "Z", "9", "-", "_"}
\* what String.prototype.trim removes
Whitespace == {" ", "\t"}

Rep(c, n) == [i \in 1..n |-> c]

RECURSIVE TrimLeft(_)
TrimLeft(str) ==
    IF str # <<>> /\ Head(str) \in Whitespace THEN TrimLeft(Tail(str)) ELSE str

RECURSIVE TrimRight(_)
TrimRight(str) ==
    IF str # <<>> /\ str[Len(str)] \in Whitespace
    THEN TrimRight(SubSeq(str, 1, Len(str) - 1))
    ELSE str

\* String.prototype.trim
Trim(str) == TrimRight(TrimLeft(str))

\* /^[a-zA-Z0-9_-]+$/.test(str)
MatchesIdPattern(str) == str # <<>> /\ \A i \in 1..Len(str) : str[i] \in IdChars

\* a validation without the length check
validateGoogleSheetsIdNoLength(spreadsheetId) ==
    LET cleanId == Trim(spreadsheetId)
    IN  IF spreadsheetId = <<>>
        THEN [isValid |-> FALSE, error |-> "required", cleanId |-> <<>>]
        ELSE IF ~MatchesIdPattern(cleanId)
        THEN [isValid |-> FALSE, error |-> "characters", cleanId |-> <<>>]
        ELSE [isValid |-> TRUE, error |-> "", cleanId |-> cleanId]

\* validateGoogleSheetsId of background.js
validateGoogleSheetsId(spreadsheetId) ==
    LET cleanId == Trim(spreadsheetId)
    IN  IF spreadsheetId = <<>>
        THEN [isValid |-> FALSE, error |-> "required", cleanId |-> <<>>]
        ELSE IF Len(cleanId) # SPREADSHEET_ID_LENGTH
        THEN [isValid |-> FALSE, error |-> "length", cleanId |-> <<>>]
        ELSE IF ~MatchesIdPattern(cleanId)
        THEN [isValid |-> FALSE, error |-> "characters", cleanId |-> <<>>]
        ELSE [isValid |-> TRUE, error |-> "", cleanId |-> cleanId]

\* isValidGoogleSheetsId of popup.js: /^[a-zA-Z0-9-_]{10,}$/
isValidGoogleSheetsId(id) ==
    MatchesIdPattern(id) /\ Len(id) >= POPUP_MIN_ID_LENGTH

\* validateForm of popup.js
validateForm(form) ==
    form.autoSync =>
        /\ Trim(form.googleSheetsId) # <<>>
        /\ isValidGoogleSheetsId(Trim(form.googleSheetsId))

ValidId == Rep("a", 40) \o <<"Z", "9", "-", "_">>
ShortId == Rep("a", 12)
LongId == Rep("a", 45)
BadCharId == Rep("a", 43) \o <<"!">>
InnerSpaceId == Rep("a", 21) \o <<" ">> \o Rep("9", 22)
PaddedId == <<" ">> \o ValidId \o <<" ", "\t">>

(***************************************************************************)
(* Authentication state and the Google Sheets API client.                  *)
(***************************************************************************)
\* AUTH_CONFIG.TOKEN_EXPIRY_BUFFER (5 * 60 * 1000 ms), in minutes
TOKEN_EXPIRY_BUFFER == 5

\* the methods of class AuthManager
AuthManagerMethods ==
    { "getAuthToken", "_performAuthentication", "_requestNewToken", "_getCachedToken",
      "_validateAndStoreToken", "_getTokenInfo", "clearAuthToken", "_clearStoredToken",
      "checkAuthStatus", "getGoogleApiHeaders", "revokeAuthentication", "getUserInfo" }

\* nothing stored under 'google_auth_token' / 'google_token_info'
NoAuthToken == [hasToken |-> FALSE, hasInfo |-> FALSE, expiryTime |-> 0]

\* what _validateAndStoreToken stores: the token and its info, expiring at `t`
StoredToken(t) == [hasToken |-> TRUE, hasInfo |-> TRUE, expiryTime |-> t]

\* an expiry check without the boundary: now > expiryTime - buffer
checkAuthStatusBoundaryOff(store, t) ==
    /\ store.hasToken
    /\ store.hasInfo
    /\ ~(t > store.expiryTime - TOKEN_EXPIRY_BUFFER)

\* AuthManager.checkAuthStatus at time t: isAuthenticated
checkAuthStatus(store, t) ==
    /\ store.hasToken
    /\ store.hasInfo
    /\ ~(t >= store.expiryTime - TOKEN_EXPIRY_BUFFER)

\* GoogleSheetsAPI.validateSpreadsheetId: valid
validateSpreadsheetId(spreadsheetId) ==
    /\ spreadsheetId # <<>>
    /\ Len(spreadsheetId) = SPREADSHEET_ID_LENGTH
    /\ MatchesIdPattern(spreadsheetId)

\* GoogleSheetsAPI.getAuthHeaders on a new GoogleSheetsAPI: initialize() calls
\* authManager.getAuthenticationStatus(), then authManager.getValidToken() is
\* called; a missing method throws, initialize() catches and reports it, and
\* getAuthHeaders throws 'Authentication failed: ...'.  The result is "" when the
\* headers are returned, the error otherwise.
getAuthHeaders(store, t) ==
    IF "getAuthenticationStatus" \notin AuthManagerMethods
    THEN "Authentication failed: authManager.getAuthenticationStatus is not a function"
    ELSE IF ~checkAuthStatus(store, t)
    THEN "Authentication failed: User not authenticated. Please authenticate first."
    ELSE IF "getValidToken" \notin AuthManagerMethods
    THEN "Authentication failed: authManager.getValidToken is not a function"
    ELSE ""

\* GoogleSheetsAPI.validateSheetAccess up to its fetch: "" when the GET request is
\* issued, the error of the {success: false} result otherwise
validateSheetAccess(spreadsheetId, store, t) ==
    IF ~validateSpreadsheetId(spreadsheetId)
    THEN "Spreadsheet ID must be exactly 44 characters long"
    ELSE getAuthHeaders(store, t)

IdleSync ==
    [pc |-> "idle", cleanId |-> <<>>, checkedAt |-> -1, startedAt |-> -1, count |-> 0,
     pending |-> [success |-> FALSE, error |-> "", wordCount |-> 0],
     snap |-> DefaultSettings]

NoSyncResult == [done |-> FALSE, success |-> FALSE, error |-> "", wordCount |-> 0]

InitSyncIdle ==
    /\ sync = IdleSync
    /\ sres = NoSyncResult
    /\ requests = <<>>
    /\ auth = NoAuthToken
    /\ now = 0
    /\ words = 0

(***************************************************************************)
(* The scraping alarm: setupScrapingAlarm and checkAndRecreateAlarms.      *)
(***************************************************************************)
\* validIntervals of setupScrapingAlarm, the options of the popup's select
ValidIntervals == {15, 30, 60, 360}

Procs == {"handler", "onStartup", "init"}
StartupProcs == {"onStartup", "init"}

NoResponse == [sent |-> FALSE, success |-> FALSE, dataSuccess |-> FALSE]
IdlePopup == [at |-> "idle", form |-> DefaultSettings, saves |-> 0]

InitAlarmIdle ==
    /\ popup = IdlePopup
    /\ saved = DefaultSettings
    /\ apc = [p \in Procs |-> "idle"]
    /\ aset = [p \in Procs |-> DefaultSettings]
    /\ hchanged = FALSE
    /\ resp = NoResponse

\* a check that only looks for a missing alarm
AlarmNeedsRecreateMissingOnly(existing, s) == existing = 0

\* checkAndRecreateAlarms: the alarm is missing or its period is not the settings'
AlarmNeedsRecreate(existing, s) ==
    existing = 0 \/ existing # s.scrapeInterval

\* setupScrapingAlarm: an alarm exists with the settings' interval
AlarmAlreadyCorrect(existing, s) ==
    existing # 0 /\ existing = s.scrapeInterval

\* handleSettingsUpdate: alarmSettingsChanged
AlarmSettingsChanged(currentSettings, newSettings) ==
    \/ currentSettings.isEnabled # newSettings.isEnabled
    \/ currentSettings.scrapeInterval # newSettings.scrapeInterval

\* handleSettingsUpdate: the spreadsheet ID is validated when autoSync is on and
\* the ID is not empty
SettingsRejected(newSettings) ==
    /\ newSettings.autoSync
    /\ newSettings.googleSheetsId # <<>>
    /\ ~validateGoogleSheetsId(newSettings.googleSheetsId).isValid

(***************************************************************************)
(* A background procedure returns to its caller.  handleSettingsUpdate     *)
(* returns to the onMessage listener, which answers                        *)
(* {success: true, data: result}, or {success: false} when the handler     *)
(* threw; the popup's sendMessage then resolves.  The startup procedures   *)
(* catch what is thrown and end.                                           *)
(***************************************************************************)
Finish(p, threw, dataSuccess) ==
    /\ apc' = [apc EXCEPT ![p] = "done"]
    /\ IF p = "handler"
       THEN /\ resp' = [sent |-> TRUE, success |-> ~threw, dataSuccess |-> dataSuccess]
            /\ popup' = [popup EXCEPT !.at = "idle"]
       ELSE UNCHANGED <<resp, popup>>

Goto(p, where) ==
    /\ apc' = [apc EXCEPT ![p] = where]
    /\ UNCHANGED <<resp, popup>>

\* getSettings() resolves, in checkAndRecreateAlarms or in setupScrapingAlarm
GetSettingsResolves(p) ==
    /\ apc[p] \in {"check_settings", "setup_settings"}
    /\ aset' = [aset EXCEPT ![p] = settings]
    /\ IF apc[p] = "check_settings"
       THEN IF ~settings.isEnabled THEN Goto(p, "check_clear") ELSE Goto(p, "check_get")
       ELSE IF ~settings.isEnabled THEN Goto(p, "setup_clearOff")
       ELSE IF settings.scrapeInterval \notin ValidIntervals THEN Finish(p, TRUE, FALSE)
       ELSE Goto(p, "setup_get")
    /\ UNCHANGED <<scrapeVars, syncVars, unitVars, settings, alarm, saved, hchanged>>

\* chrome.alarms.get('scrapeStarredWords') resolves
AlarmsGetResolves(p) ==
    /\ apc[p] \in {"check_get", "setup_get", "setup_verify"}
    /\ IF apc[p] = "check_get"
       THEN IF AlarmNeedsRecreate(alarm, aset[p])
            THEN Goto(p, "setup_settings")
            ELSE Finish(p, FALSE, TRUE)
       ELSE IF apc[p] = "setup_get"
       THEN IF AlarmAlreadyCorrect(alarm, aset[p]) THEN Finish(p, FALSE, TRUE)
            ELSE IF alarm # 0 THEN Goto(p, "setup_clear")
            ELSE Goto(p, "setup_create")
       ELSE IF alarm # 0 THEN Finish(p, FALSE, TRUE) ELSE Finish(p, TRUE, FALSE)
    /\ UNCHANGED <<scrapeVars, syncVars, unitVars, settings, alarm, saved, aset, hchanged>>

\* chrome.alarms.clear('scrapeStarredWords') resolves
AlarmsClearResolves(p) ==
    /\ apc[p] \in {"check_clear", "setup_clearOff", "setup_clear"}
    /\ alarm' = 0
    /\ IF apc[p] = "setup_clear" THEN Goto(p, "setup_create") ELSE Finish(p, FALSE, TRUE)
    /\ UNCHANGED <<scrapeVars, syncVars, unitVars, settings, saved, aset, hchanged>>

\* chrome.alarms.create('scrapeStarredWords', {periodInMinutes: interval}) resolves
AlarmsCreateResolves(p) ==
    /\ apc[p] = "setup_create"
    /\ alarm' = aset[p].scrapeInterval
    /\ Goto(p, "setup_verify")
    /\ UNCHANGED <<scrapeVars, syncVars, unitVars, settings, saved, aset, hchanged>>

\* the service worker loads (initializeServiceWorker) or the browser starts
\* (runtime.onStartup): checkAndRecreateAlarms is called
StartupBegins(p) ==
    /\ p \in StartupProcs
    /\ apc[p] = "idle"
    /\ Goto(p, "check_settings")
    /\ UNCHANGED <<scrapeVars, syncVars, unitVars, settings, alarm, saved, aset, hchanged>>

(***************************************************************************)
(* The parts that are modelled on their own below, at rest.                *)
(***************************************************************************)
Idle == [pc |-> "idle"]

InitUnitsIdle ==
    /\ req = Idle
    /\ ext = Idle
    /\ wait = Idle
    /\ msgs = <<>>
    /\ dp = Idle
    /\ tm = Idle
    /\ am = Idle
    /\ sw = Idle

(***************************************************************************)
(* Initial state of the scrape subsystem: no pipeline started, no tab.     *)
(***************************************************************************)
InitScrape ==
    /\ pc = [r \in Runs |-> "idle"]
    /\ ctl = [r \in Runs |-> NewScrapingController]
    /\ attemptResult = [r \in Runs |-> NoAttempt]
    /\ result = [r \in Runs |-> NoResult]
    /\ delays = [r \in Runs |-> <<>>]
    /\ statsSnap = [r \in Runs |-> DefaultSettings]
    /\ tabs = {}

\* pipelines start in the order of their numbers
MayStart(r) == pc[r] = "idle" /\ \A q \in Runs : q < r => pc[q] # "idle"

(***************************************************************************)
(* executeScrapingWithController up to the first chrome.tabs.create: a new *)
(* ScrapingController, the isRunning guard of                              *)
(* executeGoogleTranslateScraping on that controller, attempt 1, a new     *)
(* TabManager and the call of createHiddenTab().                           *)
(***************************************************************************)
StartController(r) ==
    LET c == NewScrapingController
    IN  /\ IF c.isRunning
           THEN /\ result' = [result EXCEPT ![r] =
                      [returned |-> FALSE, success |-> FALSE,
                       error |-> "Scraping is already in progress", attempt |-> 0]]
                /\ pc' = [pc EXCEPT ![r] = "statsRead"]
                /\ ctl' = [ctl EXCEPT ![r] = c]
           ELSE /\ ctl' = [ctl EXCEPT ![r] =
                      [c EXCEPT !.isRunning = TRUE, !.retryCount = 1, !.tabManager = TRUE]]
                /\ pc' = [pc EXCEPT ![r] = "creating"]
                /\ UNCHANGED result
        /\ UNCHANGED <<attemptResult, delays, statsSnap, tabs, settings, alarmVars, syncVars, unitVars>>

\* a scheduled scrape that does not look at settings.isEnabled
AlarmFiresWhateverSettings(r) ==
    /\ MayStart(r)
    /\ alarm # 0
    /\ StartController(r)

\* chrome.alarms.onAlarm 'scrapeStarredWords' -> performScheduledScraping
AlarmFires(r) ==
    /\ MayStart(r)
    /\ alarm # 0
    /\ IF ~settings.isEnabled
       THEN /\ pc' = [pc EXCEPT ![r] = "done"]
            /\ result' = [result EXCEPT ![r] =
                  [returned |-> FALSE, success |-> FALSE, error |-> "disabled", attempt |-> 0]]
            /\ UNCHANGED <<ctl, attemptResult, delays, statsSnap, tabs, settings, alarmVars, syncVars, unitVars>>
       ELSE StartController(r)

\* chrome.runtime.onMessage 'manualScrape' -> performManualScraping
ManualScrapeMessage(r) ==
    /\ MayStart(r)
    /\ StartController(r)

(***************************************************************************)
(* The loop of executeGoogleTranslateScraping after an attempt returned    *)
(* `res` with the controller at `c` and the browser's tabs at `ts`: return *)
(* on success, wait and retry, or fall out of the loop; the finally block  *)
(* (isRunning = false, cleanup) on both returns.                           *)
(***************************************************************************)
CloseTabs(ts, ids) ==
    {IF t.id \in ids THEN [t EXCEPT !.open = FALSE] ELSE t : t \in ts}

AfterAttempt(r, res, c, ts) ==
    /\ attemptResult' = [attemptResult EXCEPT ![r] = res]
    /\ IF res.success
       THEN /\ result' = [result EXCEPT ![r] =
                  [returned |-> TRUE, success |-> TRUE, error |-> "", attempt |-> c.retryCount]]
            /\ ctl' = [ctl EXCEPT ![r] = CleanupController(c)]
            /\ tabs' = CloseTabs(ts, CleanupCloses(c))
            /\ pc' = [pc EXCEPT ![r] = "store"]
            /\ UNCHANGED delays
       ELSE IF ShouldRetry(c.retryCount)
       THEN /\ delays' = [delays EXCEPT ![r] = Append(@, RetryDelay(c.retryCount))]
            /\ ctl' = [ctl EXCEPT ![r] = c]
            /\ tabs' = ts
            /\ pc' = [pc EXCEPT ![r] = "backoff"]
            /\ UNCHANGED result
       ELSE /\ result' = [result EXCEPT ![r] =
                  [returned |-> TRUE, success |-> FALSE,
                   error |-> "All 3 attempts failed", attempt |-> MAX_RETRIES]]
            /\ ctl' = [ctl EXCEPT ![r] = CleanupController(c)]
            /\ tabs' = CloseTabs(ts, CleanupCloses(c))
            /\ pc' = [pc EXCEPT ![r] = "statsRead"]
            /\ UNCHANGED delays

(***************************************************************************)
(* chrome.tabs.create, called by createHiddenTab() without a URL, settles. *)
(* The rest of executeSingleScrapingAttempt runs up to its return, and the *)
(* loop of executeGoogleTranslateScraping up to its next wait.             *)
(***************************************************************************)
TabCreateResolves(r, b) ==
    /\ pc[r] = "creating"
    /\ IF b.create
       THEN LET id == <<r, ctl[r].retryCount>>
                tab == [id |-> id, by |-> r, url |-> NoUrl, open |-> TRUE]
            IN  AfterAttempt(r, AttemptAfterTabCreated(b),
                             [ctl[r] EXCEPT !.currentTabId = id], tabs \cup {tab})
       ELSE AfterAttempt(r, AttemptTabCreationFailed(b), ctl[r], tabs)
    /\ UNCHANGED <<statsSnap, settings, alarmVars, syncVars, unitVars>>

\* the setTimeout of the retry delay fires: the next attempt starts with a new
\* TabManager and calls createHiddenTab()
BackoffElapses(r) ==
    /\ pc[r] = "backoff"
    /\ ctl' = [ctl EXCEPT ![r].retryCount = @ + 1, ![r].tabManager = TRUE]
    /\ pc' = [pc EXCEPT ![r] = "creating"]
    /\ UNCHANGED <<attemptResult, result, delays, statsSnap, tabs, settings, alarmVars, syncVars, unitVars>>

(***************************************************************************)
(* executeScrapingWithController after a failed run: the throw, the catch  *)
(* and updateScrapingStats, which reads the settings object, counts the    *)
(* attempt in it and writes the whole object back.                         *)
(***************************************************************************)
UpdateStatsRead(r) ==
    /\ pc[r] = "statsRead"
    /\ statsSnap' = [statsSnap EXCEPT ![r] = settings]
    /\ pc' = [pc EXCEPT ![r] = "statsWrite"]
    /\ UNCHANGED <<ctl, attemptResult, result, delays, tabs, settings, alarmVars, syncVars, unitVars>>

UpdateStatsWrite(r) ==
    /\ pc[r] = "statsWrite"
    /\ settings' = [statsSnap[r] EXCEPT !.totalAttempts = @ + 1]
    /\ pc' = [pc EXCEPT ![r] = "done"]
    /\ UNCHANGED <<ctl, attemptResult, result, delays, statsSnap, tabs, alarmVars, syncVars, unitVars>>

InitScrapeSpec ==
    /\ InitUnitsIdle
    /\ InitScrape
    /\ settings \in {[DefaultSettings EXCEPT !.isEnabled = e] : e \in BOOLEAN}
    /\ alarm = settings.scrapeInterval
    /\ InitAlarmIdle
    /\ InitSyncIdle

NextScrape ==
    \E r \in Runs :
        \/ AlarmFires(r)
        \/ ManualScrapeMessage(r)
        \/ \E b \in BrowserBehaviours : TabCreateResolves(r, b)
        \/ BackoffElapses(r)
        \/ UpdateStatsRead(r)
        \/ UpdateStatsWrite(r)

SpecScrape == InitScrapeSpec /\ [][NextScrape]_vars

(***************************************************************************)
(* The popup's saveSettings and the background's handleSettingsUpdate.     *)
(***************************************************************************)
\* what the user may enter in the settings form
FormIds == {<<>>, ValidId, ShortId, PaddedId}

FormChoices ==
    [isEnabled : BOOLEAN, scrapeInterval : ValidIntervals, googleSheetsId : FormIds,
     autoSync : BOOLEAN, totalAttempts : {0}, sheetsSync : {DefaultSettings.sheetsSync}]

\* the save button: validateForm, then chrome.storage.local.get is called
PopupClickSave(form) ==
    /\ popup.at = "idle"
    /\ popup.saves < MaxSaves
    /\ apc["handler"] \in {"idle", "done"}
    /\ validateForm(form)
    /\ popup' = [at |-> "read", form |-> form, saves |-> popup.saves + 1]
    /\ UNCHANGED <<scrapeVars, syncVars, unitVars, settings, alarm, saved, apc, aset, hchanged, resp>>

\* the get resolves: updatedSettings is the stored object with the form's values,
\* the ID trimmed; chrome.storage.local.set is called
PopupGetResolves ==
    /\ popup.at = "read"
    /\ popup' = [popup EXCEPT !.at = "write",
                              !.form = [popup.form EXCEPT
                                            !.googleSheetsId = Trim(@),
                                            !.totalAttempts = settings.totalAttempts,
                                            !.sheetsSync = settings.sheetsSync]]
    /\ UNCHANGED <<scrapeVars, syncVars, unitVars, settings, alarm, saved, apc, aset, hchanged, resp>>

\* the set resolves: the settings are stored and the 'settingsUpdated' message is
\* sent; the background's listener calls handleSettingsUpdate(message.settings),
\* which calls chrome.storage.local.get
PopupSetResolves ==
    /\ popup.at = "write"
    /\ settings' = popup.form
    /\ saved' = popup.form
    /\ popup' = [popup EXCEPT !.at = "sent"]
    /\ apc' = [apc EXCEPT !["handler"] = "h_read"]
    /\ aset' = [aset EXCEPT !["handler"] = popup.form]
    /\ resp' = NoResponse
    /\ UNCHANGED <<scrapeVars, syncVars, unitVars, alarm, hchanged>>

\* handleSettingsUpdate: the get resolves with currentSettings; the ID check;
\* alarmSettingsChanged; chrome.storage.local.set({settings: newSettings}) is called
HandlerGetResolves ==
    /\ apc["handler"] = "h_read"
    /\ IF SettingsRejected(aset["handler"])
       THEN /\ Finish("handler", FALSE, FALSE)
            /\ UNCHANGED hchanged
       ELSE /\ hchanged' = AlarmSettingsChanged(settings, aset["handler"])
            /\ Goto("handler", "h_store")
    /\ UNCHANGED <<scrapeVars, syncVars, unitVars, settings, alarm, saved, aset>>

\* handleSettingsUpdate: the set resolves; setupScrapingAlarm is called when the
\* alarm settings changed
HandlerSetResolves ==
    /\ apc["handler"] = "h_store"
    /\ settings' = aset["handler"]
    /\ IF hchanged THEN Goto("handler", "setup_settings") ELSE Finish("handler", FALSE, TRUE)
    /\ UNCHANGED <<scrapeVars, syncVars, unitVars, alarm, saved, aset, hchanged>>

AlarmMatches(s) == IF s.isEnabled THEN alarm = s.scrapeInterval ELSE alarm = 0

(***************************************************************************)
(* The settings subsystem: the extension is installed, the alarm is the    *)
(* one the stored settings ask for, and a scrape pipeline may be about to  *)
(* update the statistics in the settings object.                           *)
(***************************************************************************)
InitSettingsSpec ==
    /\ InitUnitsIdle
    /\ InitSyncIdle
    /\ settings \in {[DefaultSettings EXCEPT !.isEnabled = e] : e \in BOOLEAN}
    /\ alarm = IF settings.isEnabled THEN settings.scrapeInterval ELSE 0
    /\ popup = IdlePopup
    /\ saved = settings
    /\ apc = [p \in Procs |-> "idle"]
    /\ aset = [p \in Procs |-> DefaultSettings]
    /\ hchanged = FALSE
    /\ resp = NoResponse
    /\ \/ InitScrape
       \* pipeline 1 has failed its three tab creations and is about to count the
       \* attempt in the settings object
       \/ /\ pc = [r \in Runs |-> IF r = 1 THEN "statsRead" ELSE "idle"]
          /\ ctl = [r \in Runs |->
                      IF r = 1
                      THEN [isRunning |-> FALSE, retryCount |-> MAX_RETRIES,
                            currentTabId |-> NoTab, tabManager |-> TRUE]
                      ELSE NewScrapingController]
          /\ attemptResult = [r \in Runs |->
                      IF r = 1
                      THEN AttemptTabCreationFailed([Cooperative EXCEPT !.create = FALSE])
                      ELSE NoAttempt]
          /\ result = [r \in Runs |->
                      IF r = 1
                      THEN [returned |-> TRUE, success |-> FALSE,
                            error |-> "All 3 attempts failed", attempt |-> MAX_RETRIES]
                      ELSE NoResult]
          /\ delays = [r \in Runs |-> IF r = 1 THEN <<RetryDelay(1), RetryDelay(2)>> ELSE <<>>]
          /\ statsSnap = [r \in Runs |-> DefaultSettings]
          /\ tabs = {}

NextSettings ==
    \/ \E form \in FormChoices : PopupClickSave(form)
    \/ PopupGetResolves
    \/ PopupSetResolves
    \/ HandlerGetResolves
    \/ HandlerSetResolves
    \/ GetSettingsResolves("handler")
    \/ AlarmsGetResolves("handler")
    \/ AlarmsClearResolves("handler")
    \/ AlarmsCreateResolves("handler")
    \/ \E r \in Runs : UpdateStatsRead(r) \/ UpdateStatsWrite(r)

SpecSettings == InitSettingsSpec /\ [][NextSettings]_vars

(***************************************************************************)
(* The startup of the service worker: the stored settings are any the      *)
(* popup can have stored, the alarm any the browser may hold (none, or one *)
(* created for an earlier interval).  initializeServiceWorker and the      *)
(* onStartup listener each call checkAndRecreateAlarms.                    *)
(***************************************************************************)
InitStartupSpec ==
    /\ InitUnitsIdle
    /\ InitScrape
    /\ InitSyncIdle
    /\ settings \in {[DefaultSettings EXCEPT !.isEnabled = e, !.scrapeInterval = i] :
                        e \in BOOLEAN, i \in ValidIntervals}
    /\ alarm \in {0} \cup ValidIntervals
    /\ popup = IdlePopup
    /\ saved = settings
    /\ apc = [p \in Procs |-> "idle"]
    /\ aset = [p \in Procs |-> DefaultSettings]
    /\ hchanged = FALSE
    /\ resp = NoResponse

NextStartup ==
    \E p \in StartupProcs :
        \/ StartupBegins(p)
        \/ GetSettingsResolves(p)
        \/ AlarmsGetResolves(p)
        \/ AlarmsClearResolves(p)
        \/ AlarmsCreateResolves(p)

SpecStartup == InitStartupSpec /\ [][NextStartup]_vars

(***************************************************************************)
(* syncDataToGoogleSheets, requested by a 'syncToSheets' message.          *)
(***************************************************************************)
\* the spreadsheet IDs chrome.storage may hold: what the popup stores is trimmed
StoredIds == {<<>>, ValidId, ShortId, LongId, BadCharId, InnerSpaceId}

\* the catch of syncDataToGoogleSheets: updateSheetsSyncStatus('error', 0, msg) is
\* called, and the result will be {success: false, error: msg}
SyncFails(msg, local) ==
    sync' = [local EXCEPT !.pc = "statusRead",
                          !.pending = [success |-> FALSE, error |-> msg, wordCount |-> 0]]

\* the 'syncToSheets' message arrives: syncDataToGoogleSheets calls getSettings()
SyncRequested ==
    /\ sync.pc \in {"idle", "done"}
    /\ settings.sheetsSync.totalSyncs < MaxSyncs
    /\ sync' = [IdleSync EXCEPT !.pc = "settings", !.startedAt = now]
    /\ sres' = NoSyncResult
    /\ requests' = <<>>
    /\ UNCHANGED <<scrapeVars, settings, alarmVars, unitVars, auth, now, words>>

\* getSettings() resolves: the ID is checked, authManager.checkAuthStatus() is called
SyncGetSettingsResolves ==
    /\ sync.pc = "settings"
    /\ LET validation == validateGoogleSheetsId(settings.googleSheetsId)
       IN  IF settings.googleSheetsId = <<>>
           THEN SyncFails("Google Sheets ID not configured", sync)
           ELSE IF ~validation.isValid
           THEN SyncFails("Invalid Google Sheets ID", sync)
           ELSE sync' = [sync EXCEPT !.pc = "auth", !.cleanId = validation.cleanId]
    /\ UNCHANGED <<scrapeVars, settings, alarmVars, unitVars, sres, requests, auth, now, words>>

\* checkAuthStatus() resolves: getExistingScrapedData() is called
SyncCheckAuthResolves ==
    /\ sync.pc = "auth"
    /\ LET local == [sync EXCEPT !.checkedAt = now]
       IN  IF ~checkAuthStatus(auth, now)
           THEN SyncFails("User not authenticated. Please authenticate first.", local)
           ELSE sync' = [local EXCEPT !.pc = "data"]
    /\ UNCHANGED <<scrapeVars, settings, alarmVars, unitVars, sres, requests, auth, now, words>>

\* getExistingScrapedData() resolves: with no words the sync is a success with
\* wordCount 0; otherwise a GoogleSheetsAPI is made and validateSheetAccess runs
\* up to its fetch
SyncGetDataResolves ==
    /\ sync.pc = "data"
    /\ LET local == [sync EXCEPT !.count = words]
           accessError == validateSheetAccess(sync.cleanId, auth, now)
       IN  IF words = 0
           THEN /\ sync' = [local EXCEPT !.pc = "statusRead",
                               !.pending = [success |-> TRUE, error |-> "", wordCount |-> 0]]
                /\ UNCHANGED requests
           ELSE IF accessError # ""
           THEN /\ SyncFails("Cannot access Google Sheet", local)
                /\ UNCHANGED requests
           ELSE /\ sync' = [local EXCEPT !.pc = "accessFetch"]
                /\ requests' = Append(requests, [method |-> "GET", rows |-> 0])
    /\ UNCHANGED <<scrapeVars, settings, alarmVars, unitVars, sres, auth, now, words>>

\* updateSheetsSyncStatus: getSettings() resolves
SyncStatusRead ==
    /\ sync.pc = "statusRead"
    /\ sync' = [sync EXCEPT !.pc = "statusWrite", !.snap = settings]
    /\ UNCHANGED <<scrapeVars, settings, alarmVars, unitVars, sres, requests, auth, now, words>>

\* updateSheetsSyncStatus: the settings object is written back with the sync
\* statistics; syncDataToGoogleSheets returns its result
SyncStatusWrite ==
    /\ sync.pc = "statusWrite"
    /\ settings' = [sync.snap EXCEPT
                       !.sheetsSync = [lastSyncStatus |->
                                           IF sync.pending.success THEN "success" ELSE "error",
                                       totalSyncs |-> @.totalSyncs + 1,
                                       lastSyncedWordCount |-> sync.pending.wordCount]]
    /\ sync' = [sync EXCEPT !.pc = "done"]
    /\ sres' = [done |-> TRUE, success |-> sync.pending.success,
                error |-> sync.pending.error, wordCount |-> sync.pending.wordCount]
    /\ UNCHANGED <<scrapeVars, alarmVars, unitVars, requests, auth, now, words>>

\* a minute passes
Tick ==
    /\ now < MaxNow
    /\ now' = now + 1
    /\ UNCHANGED <<scrapeVars, settings, alarmVars, unitVars, sync, sres, requests, auth, words>>

(***************************************************************************)
(* The sync subsystem: the stored settings are any the popup can have      *)
(* stored, the user is not authenticated or holds a token that expires     *)
(* soon or late, and some number of words is stored.                       *)
(***************************************************************************)
InitSyncSpec ==
    /\ InitUnitsIdle
    /\ InitScrape
    /\ InitAlarmIdle
    /\ settings \in {DefaultSettings} \cup
          {st \in {[DefaultSettings EXCEPT !.googleSheetsId = id, !.autoSync = a] :
                      id \in StoredIds, a \in BOOLEAN} : validateForm(st)}
    /\ alarm = settings.scrapeInterval
    /\ sync = IdleSync
    /\ sres = NoSyncResult
    /\ requests = <<>>
    /\ auth \in {NoAuthToken, StoredToken(TOKEN_EXPIRY_BUFFER + 2),
                 StoredToken(TOKEN_EXPIRY_BUFFER + MaxNow + 1)}
    /\ now = 0
    /\ words \in 0..MaxWords

NextSync ==
    \/ SyncRequested
    \/ SyncGetSettingsResolves
    \/ SyncCheckAuthResolves
    \/ SyncGetDataResolves
    \/ SyncStatusRead
    \/ SyncStatusWrite
    \/ Tick

SpecSync == InitSyncSpec /\ [][NextSync]_vars

(***************************************************************************)
(* Properties of the scrape run (SpecScrape).                              *)
(***************************************************************************)
\* C1: a run of executeGoogleTranslateScraping makes at most MAX_RETRIES (3)
\* attempts and waits at most twice; once it has returned it makes no further
\* attempt; a successful return is the return of a successful attempt, and a
\* failed return is 'All 3 attempts failed' after exactly three failed attempts.
C1_AtMostThreeAttempts ==
    \A r \in Runs :
        /\ ctl[r].retryCount <= MAX_RETRIES
        /\ Len(delays[r]) < MAX_RETRIES
        /\ result[r].returned =>
              /\ pc[r] \notin {"creating", "backoff"}
              /\ result[r].success =>
                    /\ attemptResult[r].success
                    /\ result[r].attempt = ctl[r].retryCount
              /\ ~result[r].success =>
                    /\ ~attemptResult[r].success
                    /\ result[r].error = "All 3 attempts failed"
                    /\ result[r].attempt = MAX_RETRIES
                    /\ ctl[r].retryCount = MAX_RETRIES
                    /\ delays[r] = <<RetryDelay(1), RetryDelay(2)>>

\* a run that has returned its failure after three failed attempts
C1_Witness ==
    \E r \in Runs :
        /\ result[r].returned
        /\ ~result[r].success
        /\ ctl[r].retryCount = MAX_RETRIES
        /\ attemptResult[r].ran

\* C2: an attempt for which the browser created the tab, the page loaded, the
\* script was injected and the content script answered with success=true and a
\* words array returns success=true with the validated words.
C2_CooperativeAttemptSucceeds ==
    \A r \in Runs :
        (attemptResult[r].ran /\ attemptResult[r].browser = Cooperative) =>
            attemptResult[r].success /\ attemptResult[r].words

\* C4: when a run has returned, successful or not, every tab it created is closed.
C4_TabsClosedWhenRunFinishes ==
    \A r \in Runs :
        result[r].returned => \A t \in tabs : t.by = r => ~t.open

\* C5: at most one run is in progress at any time; a run requested while
\* another is in progress is rejected and creates no tab.
C5_AtMostOneRunInProgress ==
    \A r, q \in Runs :
        (r # q /\ ctl[r].isRunning /\ pc[r] \in {"creating", "backoff"}) =>
            /\ ~ctl[q].isRunning
            /\ pc[q] \notin {"creating", "backoff"}

(***************************************************************************)
(* Properties of the schedule (SpecSettings, SpecStartup).                 *)
(***************************************************************************)
\* C6: after the popup has saved settings and the background has answered the
\* 'settingsUpdated' message, the alarm has the saved interval when scraping was
\* saved as enabled, and there is no alarm when it was saved as disabled.
C6_AlarmFollowsSavedSettings ==
    (popup.saves > 0 /\ popup.at = "idle" /\ resp.sent) => AlarmMatches(saved)

ConfiguredIdWellFormed ==
    LET id == Trim(settings.googleSheetsId)
    IN  /\ Len(id) = SPREADSHEET_ID_LENGTH
        /\ \A i \in 1..Len(id) : id[i] \in IdChars

\* a token is stored and time t is more than 5 minutes before its expiry
TokenFreshAt(t) ==
    /\ auth.hasToken
    /\ auth.hasInfo
    /\ t + TOKEN_EXPIRY_BUFFER < auth.expiryTime

\* C8: a sync with a well-formed configured ID, an authenticated user and
\* N >= 1 stored words sends a write request with one header row and N word
\* rows and returns success with wordCount = N.
C8_SyncWritesAllWords ==
    ( /\ sres.done
      /\ ConfiguredIdWellFormed
      /\ TokenFreshAt(sync.checkedAt)
      /\ sync.count >= 1 ) =>
        /\ sres.success
        /\ sres.wordCount = sync.count
        /\ \E i \in 1..Len(requests) :
              requests[i].method = "PUT" /\ requests[i].rows = 1 + sync.count

\* C9 as stated: no HTTP request is issued unless the configured ID is well
\* formed, and a sync with any other ID fails with 'Invalid Google Sheets ID'.
C9_InvalidIdFailsAsInvalid ==
    /\ requests # <<>> => ConfiguredIdWellFormed
    /\ (sres.done /\ ~ConfiguredIdWellFormed) =>
          ~sres.success /\ sres.error = "Invalid Google Sheets ID"

\* C9 as amended: no HTTP request is issued unless the configured ID is well
\* formed; a sync with any other ID issues none and fails, with 'Google Sheets ID
\* not configured' when the ID is empty and with 'Invalid Google Sheets ID'
\* otherwise.
C9_InvalidIdFails ==
    /\ requests # <<>> => ConfiguredIdWellFormed
    /\ (sres.done /\ ~ConfiguredIdWellFormed) =>
          /\ ~sres.success
          /\ requests = <<>>
          /\ sres.error = IF settings.googleSheetsId = <<>>
                          THEN "Google Sheets ID not configured"
                          ELSE "Invalid Google Sheets ID"

\* a sync has returned the 'Invalid Google Sheets ID' failure for an ID of 45
\* characters
C9_Witness ==
    /\ sres.done
    /\ settings.googleSheetsId = LongId
    /\ sres.error = "Invalid Google Sheets ID"
    /\ requests = <<>>

\* C10 as stated: no HTTP request is issued unless a token is stored and the
\* time is more than 5 minutes before its expiry, and a sync without such a
\* token fails with 'User not authenticated. Please authenticate first.'
C10_UnauthenticatedFailsAsUnauthenticated ==
    /\ requests # <<>> => TokenFreshAt(sync.checkedAt)
    /\ (sres.done /\ ~TokenFreshAt(sync.startedAt)) =>
          /\ ~sres.success
          /\ sres.error = "User not authenticated. Please authenticate first."

\* C10 as amended: no HTTP request is issued unless a token is stored and the
\* time is more than 5 minutes before its expiry; a sync whose configured ID is
\* well formed and which finds no such token when it checks issues none and
\* fails with 'User not authenticated. Please authenticate first.' (with an
\* empty or malformed ID the sync fails on the ID before it checks).
C10_UnauthenticatedFails ==
    /\ requests # <<>> => TokenFreshAt(sync.checkedAt)
    /\ (sres.done /\ ConfiguredIdWellFormed) =>
          /\ sync.checkedAt >= sync.startedAt
          /\ ~TokenFreshAt(sync.checkedAt) =>
                /\ ~sres.success
                /\ requests = <<>>
                /\ sres.error = "User not authenticated. Please authenticate first."
          /\ TokenFreshAt(sync.checkedAt) =>
                sres.error # "User not authenticated. Please authenticate first."

\* a sync with a well-formed ID checked the token exactly 5 minutes before its
\* expiry and has returned the authentication failure
C10_Witness ==
    /\ sres.done
    /\ ConfiguredIdWellFormed
    /\ auth.hasToken
    /\ sync.checkedAt + TOKEN_EXPIRY_BUFFER = auth.expiryTime
    /\ sres.error = "User not authenticated. Please authenticate first."

(***************************************************************************)
(* GoogleSheetsAPI.makeRequest: one call with retryCount = 0 and the calls *)
(* it makes of itself.  The outcomes of fetch are the HTTP status of the   *)
(* response, "AbortError" when the 30 s timeout aborts the request, and    *)
(* "Failed to fetch" when the network fails.                               *)
(***************************************************************************)
\* SHEETS_CONFIG.MAX_RETRY_ATTEMPTS
MAX_RETRY_ATTEMPTS == 3
\* SHEETS_CONFIG.RETRY_DELAY (ms)
RETRY_DELAY == 1000

FetchOutcomes == {"200", "401", "403", "404", "429", "500", "AbortError", "Failed to fetch"}

NewRequest ==
    [pc |-> "fetch", retryCount |-> 0, history |-> <<>>, refreshed |-> 0,
     ok |-> FALSE, error |-> ""]

\* retryCount < this.retryAttempts
MayRetry(retryCount) == retryCount < MAX_RETRY_ATTEMPTS

\* a backoff that does not grow
BackoffDelayConstant(retryCount) == RETRY_DELAY

\* this.retryDelay * Math.pow(2, retryCount)
BackoffDelay(retryCount) == RETRY_DELAY * (2 ^ retryCount)

\* an entry of the history: the outcome of a try, the retryCount of that try, and
\* the delay waited after it (0 when none)
Try(outcome, n, delay) == [status |-> outcome, n |-> n, delay |-> delay]

\* makeRequest throws: the promise of the first call rejects
RequestFails(msg, outcome) ==
    req' = [req EXCEPT !.pc = "done", !.error = msg,
                       !.history = Append(@, Try(outcome, req.retryCount, 0))]

\* makeRequest waits this.delay(delay) and calls itself with retryCount + 1
RequestBacksOff(outcome) ==
    req' = [req EXCEPT !.pc = "delay",
                       !.history = Append(@, Try(outcome, req.retryCount,
                                                 BackoffDelay(req.retryCount)))]

\* a caller that holds headers calls makeRequest(url, options): fetch is called
RequestBegins ==
    /\ req.pc \in {"idle", "done"}
    /\ req' = NewRequest
    /\ UNCHANGED <<scrapeVars, settings, alarmVars, syncVars, ext, wait, msgs, dp, tm, am, sw>>

\* fetch settles with outcome o: the status checks of the try block and the catch
FetchSettles(o) ==
    /\ req.pc = "fetch"
    /\ CASE o = "200" ->
              req' = [req EXCEPT !.pc = "done", !.ok = TRUE,
                                 !.history = Append(@, Try(o, req.retryCount, 0))]
         [] o = "401" ->
              IF "refreshToken" \notin AuthManagerMethods
              THEN RequestFails("authManager.refreshToken is not a function", o)
              ELSE IF ~MayRetry(req.retryCount)
              THEN RequestFails("Authentication failed after token refresh", o)
              ELSE IF getAuthHeaders(auth, now) # ""
              THEN RequestFails(getAuthHeaders(auth, now), o)
              ELSE req' = [req EXCEPT !.retryCount = @ + 1, !.refreshed = @ + 1,
                                      !.history = Append(@, Try(o, req.retryCount, 0))]
         [] o = "403" -> RequestFails("Permission denied", o)
         [] o = "404" -> RequestFails("Spreadsheet not found or not accessible", o)
         [] o = "429" ->
              IF MayRetry(req.retryCount)
              THEN RequestBacksOff(o)
              ELSE RequestFails("Rate limit exceeded. Please try again later.", o)
         [] o = "500" -> RequestFails("HTTP 500", o)
         [] o = "AbortError" ->
              IF MayRetry(req.retryCount)
              THEN RequestBacksOff(o)
              ELSE RequestFails("The operation was aborted", o)
         [] o = "Failed to fetch" -> RequestFails("Failed to fetch", o)
    /\ UNCHANGED <<scrapeVars, settings, alarmVars, syncVars, ext, wait, msgs, dp, tm, am, sw>>

\* the delay has passed: makeRequest(url, options, retryCount + 1) calls fetch
RequestDelayElapses ==
    /\ req.pc = "delay"
    /\ req' = [req EXCEPT !.pc = "fetch", !.retryCount = @ + 1]
    /\ UNCHANGED <<scrapeVars, settings, alarmVars, syncVars, ext, wait, msgs, dp, tm, am, sw>>

\* everything but the named part at rest
InitRest ==
    /\ InitScrape
    /\ InitAlarmIdle
    /\ InitSyncIdle
    /\ settings = DefaultSettings
    /\ alarm = settings.scrapeInterval

\* nothing in progress anywhere: the state in which each part modelled on its
\* own is first called
InitIdle ==
    /\ InitRest
    /\ InitUnitsIdle

NextRequest ==
    \/ RequestBegins
    \/ \E o \in FetchOutcomes : FetchSettles(o)
    \/ RequestDelayElapses

SpecRequest == InitIdle /\ [][NextRequest]_vars

\* C11: a try that receives 429 after n retries is, for n < 3, followed by a wait
\* of 1000 * 2^n ms and another try; no request is retried more than 3 times; a
\* 429 on the fourth try ends the request with 'Rate limit exceeded. Please try
\* again later.'
C11_RateLimitBackoff ==
    req.pc # "idle" =>
        /\ Len(req.history) <= 4
        /\ \A i \in 1..Len(req.history) :
              /\ req.history[i].n = i - 1
              /\ req.history[i].status = "429" =>
                    IF i <= 3
                    THEN /\ req.history[i].delay = 1000 * (2 ^ (i - 1))
                         /\ i = Len(req.history) => req.pc \in {"delay", "fetch"}
                    ELSE /\ i = Len(req.history)
                         /\ req.pc = "done"
                         /\ ~req.ok
                         /\ req.error = "Rate limit exceeded. Please try again later."

\* a request that received 429 four times, waited 1000, 2000 and 4000 ms and failed
C11_Witness ==
    /\ req.pc = "done"
    /\ Len(req.history) = 4
    /\ \A i \in 1..4 : req.history[i].status = "429"
    /\ req.history[3].delay = 4000
    /\ req.error = "Rate limit exceeded. Please try again later."

\* C12: a try that receives 401 after fewer than 3 retries refreshes the token
\* and is sent again; a 401 on the fourth try ends the request with
\* 'Authentication failed after token refresh'.
C12_UnauthorizedRefreshedAndResent ==
    req.pc # "idle" =>
        \A i \in 1..Len(req.history) :
            req.history[i].status = "401" =>
                IF i <= 3
                THEN /\ req.refreshed >= 1
                     /\ ~(req.pc = "done" /\ i = Len(req.history))
                ELSE /\ req.pc = "done"
                     /\ req.error = "Authentication failed after token refresh"

(***************************************************************************)
(* The content script (content-script.js: extractWithRetry, main) and the *)
(* controller's wait for its message (waitForExtractionResults), modelled  *)
(* on their own: the script runs in a tab while the controller waits.      *)
(***************************************************************************)
\* the wait's clock advances in MaxTicks steps up to SCRAPING_TIMEOUT
MaxTicks == 3
\* CONFIG.MAX_RETRIES of the content script
CONTENT_MAX_RETRIES == 3
\* SCRAPER_CONFIG.SCRAPING_TIMEOUT (ms)
SCRAPING_TIMEOUT == 45000

\* tabs a content script may run in; other senders of runtime messages
ScriptTabs == {"tabA", "tabB"}
Senders == ScriptTabs \cup {"popup"}

\* what one call of extractStarredWords does: it returns {success: true, count},
\* returns {success: false} from its own catch, or throws
ExtractionOutcomes ==
    [kind : {"success"}, count : 0..MaxWords]
        \cup {[kind |-> "failure", count |-> 0], [kind |-> "throws", count |-> 0]}

\* the value extractWithRetry returns: an object, or undefined when the loop ends
Undefined == [defined |-> FALSE, success |-> FALSE, count |-> 0, error |-> ""]
ResultObject(success, count, error) ==
    [defined |-> TRUE, success |-> success, count |-> count, error |-> error]

\* chrome.runtime.sendMessage serialises the message: a property whose value is
\* undefined is dropped, so the receiver sees no data
Message(sender, action, value) ==
    [sender |-> sender, action |-> action, hasData |-> value.defined, data |-> value]

\* resolve / reject of the wait's promise: only the first call settles it
Settle(w, outcome, error) ==
    IF w.outcome = "pending"
    THEN [w EXCEPT !.outcome = outcome, !.error = error,
                   !.settledAt = (w.elapsed * SCRAPING_TIMEOUT) \div MaxTicks]
    ELSE w

\* messageListener of waitForExtractionResults
MessageListener(w, m) ==
    IF ~w.listening THEN w
    ELSE IF m.sender = w.tabId /\ m.action = "starredWordsExtracted"
    THEN LET cleared == [w EXCEPT !.timer = IF @ = "armed" THEN "cleared" ELSE @,
                                  !.listening = FALSE,
                                  !.received = m]
         IN  IF m.hasData
             THEN Settle(cleared, "resolved", "")
             ELSE Settle(cleared, "rejected", "No data in extraction results")
    ELSE [w EXCEPT !.ignored = m]

NoMessage == Message("popup", "", Undefined)

\* injectContentScript, then waitForExtractionResults(tabId)
ExtractionBegins(tab) ==
    /\ ext.pc = "idle"
    /\ wait.pc = "idle"
    /\ ext' = [pc |-> "stabilizing", tab |-> tab, attempt |-> 0, tries |-> <<>>,
               result |-> Undefined]
    /\ wait' = [pc |-> "waiting", tabId |-> tab, timer |-> "armed", listening |-> TRUE,
                elapsed |-> 0, outcome |-> "pending", error |-> "", settledAt |-> 0,
                received |-> NoMessage, ignored |-> NoMessage]
    /\ UNCHANGED <<scrapeVars, settings, alarmVars, syncVars, req, msgs, dp, tm, am, sw>>

\* main: the 1000 ms pause is over, extractWithRetry starts attempt 1
StabilizeElapses ==
    /\ ext.pc = "stabilizing"
    /\ ext' = [ext EXCEPT !.pc = "extracting", !.attempt = 1]
    /\ UNCHANGED <<scrapeVars, settings, alarmVars, syncVars, req, wait, msgs, dp, tm, am, sw>>

\* extractWithRetry: extractStarredWords of this attempt settles
AttemptSettles(o) ==
    /\ ext.pc = "extracting"
    /\ LET tried == [ext EXCEPT !.tries = Append(@, o.kind)]
       IN  ext' =
             IF o.kind = "success"
             THEN [tried EXCEPT !.pc = "returned",
                                !.result = ResultObject(TRUE, o.count, "")]
             ELSE IF o.kind = "failure"
             THEN IF ext.attempt < CONTENT_MAX_RETRIES
                  THEN [tried EXCEPT !.pc = "delay"]
                  ELSE [tried EXCEPT !.pc = "returned", !.result = Undefined]
             ELSE IF ext.attempt = CONTENT_MAX_RETRIES
                  THEN [tried EXCEPT !.pc = "returned",
                                     !.result = ResultObject(FALSE, 0, "All attempts failed")]
                  ELSE [tried EXCEPT !.pc = "delay"]
    /\ UNCHANGED <<scrapeVars, settings, alarmVars, syncVars, req, wait, msgs, dp, tm, am, sw>>

\* extractWithRetry: the pause of RETRY_DELAY * attempt before the next attempt is over
RetryPauseElapses ==
    /\ ext.pc = "delay"
    /\ ext' = [ext EXCEPT !.pc = "extracting", !.attempt = @ + 1]
    /\ UNCHANGED <<scrapeVars, settings, alarmVars, syncVars, req, wait, msgs, dp, tm, am, sw>>

\* main: chrome.runtime.sendMessage({action: 'starredWordsExtracted', data: result})
ScriptSends ==
    /\ ext.pc = "returned"
    /\ ext' = [ext EXCEPT !.pc = "sent"]
    /\ wait' = MessageListener(wait, Message(ext.tab, "starredWordsExtracted", ext.result))
    /\ UNCHANGED <<scrapeVars, settings, alarmVars, syncVars, req, msgs, dp, tm, am, sw>>

\* a runtime message of another sender reaches the listener: the popup's requests,
\* or the result of a content script in another tab
OtherMessageArrives(sender, action) ==
    /\ wait.pc = "waiting"
    /\ wait.listening
    /\ \/ sender = "popup" /\ action \in {"getTabStatus", "starredWordsExtracted"}
       \/ sender \in ScriptTabs \ {wait.tabId} /\ action = "starredWordsExtracted"
    /\ wait' = MessageListener(wait, Message(sender, action, ResultObject(TRUE, 0, "")))
    /\ wait' # wait
    /\ UNCHANGED <<scrapeVars, settings, alarmVars, syncVars, req, ext, msgs, dp, tm, am, sw>>

\* time passes while the timer of the wait is armed
WaitTimePasses ==
    /\ wait.pc = "waiting"
    /\ wait.timer = "armed"
    /\ wait.elapsed < MaxTicks
    /\ wait' = [wait EXCEPT !.elapsed = @ + 1]
    /\ UNCHANGED <<scrapeVars, settings, alarmVars, syncVars, req, ext, msgs, dp, tm, am, sw>>

\* the setTimeout(SCRAPING_TIMEOUT) callback of waitForExtractionResults
TimeoutFires ==
    /\ wait.pc = "waiting"
    /\ wait.timer = "armed"
    /\ wait.elapsed = MaxTicks
    /\ wait' = Settle([wait EXCEPT !.timer = "fired"], "rejected", "Extraction results timeout")
    /\ UNCHANGED <<scrapeVars, settings, alarmVars, syncVars, req, ext, msgs, dp, tm, am, sw>>

NextExtract ==
    \/ \E tab \in ScriptTabs : ExtractionBegins(tab)
    \/ StabilizeElapses
    \/ \E o \in ExtractionOutcomes : AttemptSettles(o)
    \/ RetryPauseElapses
    \/ ScriptSends
    \/ \E sender \in Senders, action \in {"getTabStatus", "starredWordsExtracted"} :
          OtherMessageArrives(sender, action)
    \/ WaitTimePasses
    \/ TimeoutFires

SpecExtract == InitIdle /\ [][NextExtract]_vars

\* C13: extractWithRetry ends after at most 3 attempts by returning an object
\* with a boolean success field, also when every attempt returned success=false
\* without throwing, so the 'starredWordsExtracted' message always carries data.
C13_ExtractionReturnsResultObject ==
    /\ ext.pc \in {"returned", "sent"} =>
          /\ Len(ext.tries) <= 3
          /\ ext.result.defined
          /\ ext.result.success \in BOOLEAN
    /\ (wait.pc = "waiting" /\ wait.received # NoMessage) => wait.received.hasData

\* C14: the wait settles once; it resolves when a 'starredWordsExtracted' message
\* with data arrives from the attempt's tab, otherwise it rejects with
\* 'Extraction results timeout' 45 seconds after it began; it never waits longer.
C14_ResolvesOnDataElseTimesOutAt45s ==
    wait.pc = "waiting" =>
        /\ wait.elapsed * SCRAPING_TIMEOUT <= 45000 * MaxTicks
        /\ wait.outcome = "resolved" =>
              /\ wait.received.sender = wait.tabId
              /\ wait.received.action = "starredWordsExtracted"
              /\ wait.received.hasData
        /\ wait.outcome = "rejected" =>
              /\ wait.error = "Extraction results timeout"
              /\ wait.settledAt = 45000
        /\ wait.outcome = "pending" => wait.timer = "armed"

\* C15: retries of a scrape run use exponential backoff: after failed attempt k
\* (k = 1, 2) the controller waits 2000 * 2^(k-1) ms (2000, then 4000) before it
\* starts attempt k+1, and it does not wait after the final failed attempt.
C15_ExponentialBackoff ==
    \A r \in Runs :
        /\ \A k \in 1..Len(delays[r]) :
              /\ k \in {1, 2}
              /\ delays[r][k] = 2000 * (2 ^ (k - 1))
        /\ pc[r] = "backoff" =>
              /\ ~attemptResult[r].success
              /\ Len(delays[r]) = ctl[r].retryCount
        /\ (pc[r] # "backoff" /\ ctl[r].retryCount >= 1) =>
              Len(delays[r]) = ctl[r].retryCount - 1
        /\ (result[r].returned /\ ~result[r].success) => delays[r] = <<2000, 4000>>

\* a run is in its second backoff, after 2000 ms and 4000 ms
C15_Witness ==
    \E r \in Runs :
        /\ pc[r] = "backoff"
        /\ ctl[r].retryCount = 2
        /\ delays[r] = <<2000, 4000>>

(***************************************************************************)
(* The background's chrome.runtime.onMessage listener (background.js),     *)
(* modelled on its own: msgs holds the messages delivered so far, each     *)
(* with the responses the listener has passed to its sendResponse.         *)
(***************************************************************************)
MaxMsgs == 2

\* the actions the listener has a branch for
SupportedActions ==
    {"settingsUpdated", "manualScrape", "getAlarmStatus", "getTabStatus",
     "cleanupAllTabs", "authenticate", "getAuthStatus", "clearAuth", "getUserInfo",
     "getScrapingStats", "getScrapedData", "resetScrapingStats", "syncToSheets",
     "testSheetsAccess", "getSyncStatus"}

\* actions without a branch: the content script's result message, anything else
UnsupportedActions == {"starredWordsExtracted", "somethingElse"}

\* branches that wrap the handler's result: sendResponse({success: true, ...})
WrappingActions == {"settingsUpdated", "getAlarmStatus", "getTabStatus", "cleanupAllTabs"}

\* what a handler does: it returns a result object (success true or false) or throws
HandlerOutcomes == {"returnsSuccess", "returnsFailure", "throws"}

\* an else branch that does not answer
UnknownActionUnanswered == <<>>

\* the else branch: sendResponse({success: false, error: 'Unknown action'})
UnknownActionAnswered == <<[kind |-> "unknown", success |-> FALSE, error |-> "Unknown action"]>>

\* the sendResponse of the branch of action, or of the catch, for a handler outcome
ResponseTo(action, outcome) ==
    IF outcome = "throws"
    THEN [kind |-> "error", success |-> FALSE, error |-> "error.message"]
    ELSE [kind |-> "result",
          success |-> (action \in WrappingActions \/ outcome = "returnsSuccess"),
          error |-> ""]

\* the listener is called: the async function runs up to its first await.  An
\* unsupported action is answered on the spot, and so is getTabStatus, whose
\* handler is called without await.
MessageDelivered(action, outcome) ==
    /\ Len(msgs) < MaxMsgs
    /\ msgs' = Append(msgs,
          IF action \in UnsupportedActions
          THEN [action |-> action, pc |-> "done", outcome |-> "", responses |-> UnknownActionAnswered]
          ELSE IF action = "getTabStatus"
          THEN [action |-> action, pc |-> "done", outcome |-> outcome,
                responses |-> <<ResponseTo(action, outcome)>>]
          ELSE [action |-> action, pc |-> "handling", outcome |-> "", responses |-> <<>>])
    /\ UNCHANGED <<scrapeVars, settings, alarmVars, syncVars, req, ext, wait, dp, tm, am, sw>>

\* the awaited handler of message i settles: the branch, or the catch, responds
HandlerSettles(i, outcome) ==
    /\ i \in 1..Len(msgs)
    /\ msgs[i].pc = "handling"
    /\ msgs' = [msgs EXCEPT ![i] = [@ EXCEPT !.pc = "done", !.outcome = outcome,
                                       !.responses = Append(@, ResponseTo(msgs[i].action, outcome))]]
    /\ UNCHANGED <<scrapeVars, settings, alarmVars, syncVars, req, ext, wait, dp, tm, am, sw>>

SomeHandlerSettles == \E i \in 1..MaxMsgs, o \in HandlerOutcomes : HandlerSettles(i, o)

NextMessages ==
    \/ \E action \in SupportedActions \cup UnsupportedActions, o \in HandlerOutcomes :
          MessageDelivered(action, o)
    \/ SomeHandlerSettles

\* every awaited handler settles in the end
SpecMessages == InitIdle /\ [][NextMessages]_vars /\ WF_vars(SomeHandlerSettles)

\* at most one response per message, of the kind the claim names
C16_ResponseOfTheRightKind ==
    \A i \in 1..Len(msgs) :
        /\ Len(msgs[i].responses) <= 1
        /\ msgs[i].pc = "done" <=> Len(msgs[i].responses) = 1
        /\ msgs[i].pc = "done" =>
              LET r == msgs[i].responses[1]
              IN  /\ msgs[i].action \notin SupportedActions =>
                        r = [kind |-> "unknown", success |-> FALSE, error |-> "Unknown action"]
                  /\ (msgs[i].action \in SupportedActions /\ msgs[i].outcome = "throws") =>
                        (r.kind = "error" /\ ~r.success /\ r.error # "")
                  /\ (msgs[i].action \in SupportedActions /\ msgs[i].outcome # "throws") =>
                        r.kind = "result"

MaxTextLen == 3
MaxBatch == 1
\* PROCESSOR_CONFIG.MAX_TEXT_LENGTH / MIN_TEXT_LENGTH
MAX_TEXT_LENGTH == 5000
MIN_TEXT_LENGTH == 1

\* U+200B..U+200D (U+FEFF is also whitespace), and a control character below \x20
\* that is not whitespace
ZeroWidth == {"ZWSP"}
Control == {"SOH"}
TextChars == {"a", " "} \cup ZeroWidth

Str(chars) == [type |-> "string", chars |-> chars]
Absent == [type |-> "undefined", chars |-> <<>>]
ANumber == [type |-> "number", chars |-> <<>>]

\* the raw texts: every text of up to MaxTextLen characters, a word on both sides
\* of a zero-width character between spaces, a text that starts with a control
\* character, and a text one character longer than the limit whose last kept
\* character is a space
RawTexts ==
    UNION {[1..n -> TextChars] : n \in 0..MaxTextLen}
        \cup {<<"a", " ", "ZWSP", " ", "a">>, <<"SOH", "a", "SOH">>,
              [i \in 1..(MAX_TEXT_LENGTH + 1) |-> IF i = MAX_TEXT_LENGTH THEN " " ELSE "a"]}

RawValues == {Absent, ANumber} \cup {Str(t) : t \in RawTexts}

RawObject(id, originalText, translatedText) ==
    [kind |-> "object", id |-> id, originalText |-> originalText,
     translatedText |-> translatedText]

\* the entries of rawWords: things that are not objects, and objects that vary
\* one field at a time around a well-formed entry
RawEntries ==
    {[kind |-> k, id |-> Absent, originalText |-> Absent, translatedText |-> Absent] :
        k \in {"null", "string", "number"}}
        \cup {RawObject(Str(<<"1">>), v, Str(<<"a">>)) : v \in RawValues}
        \cup {RawObject(Str(<<"1">>), Str(<<"a">>), v) : v \in RawValues}
        \cup {RawObject(i, Str(<<"a">>), Str(<<"a">>)) : i \in {Absent, ANumber}}

\* text.replace(/\s+/g, ' ')
CollapseWhitespace(t) ==
    LET marked == [i \in 1..Len(t) |->
                     [c |-> IF t[i] \in Whitespace THEN " " ELSE t[i],
                      keep |-> t[i] \notin Whitespace \/ i = 1 \/ t[i - 1] \notin Whitespace]]
        kept == SelectSeq(marked, LAMBDA m : m.keep)
    IN  [i \in 1..Len(kept) |-> kept[i].c]

\* cleanText
cleanText(text) ==
    IF text.type # "string" THEN <<>>
    ELSE LET collapsed == CollapseWhitespace(Trim(text.chars))
             visible == SelectSeq(collapsed, LAMBDA c : c \notin ZeroWidth)
             printable == SelectSeq(visible, LAMBDA c : c \notin Control)
         IN  SubSeq(printable, 1, IF Len(printable) < MAX_TEXT_LENGTH
                                  THEN Len(printable) ELSE MAX_TEXT_LENGTH)

\* cleanSingleWordEntry: null for what is not an object, else the cleaned fields;
\* word.id || `word_${index}_...`
cleanSingleWordEntry(word) ==
    IF word.kind # "object"
    THEN [isNull |-> TRUE, id |-> Absent, originalText |-> <<>>, translatedText |-> <<>>]
    ELSE [isNull |-> FALSE,
          id |-> IF word.id.type = "undefined" THEN Str(<<"w">>) ELSE word.id,
          originalText |-> cleanText(word.originalText),
          translatedText |-> cleanText(word.translatedText)]

\* a validation that looks at originalText only
validateOriginalTextOnly(word) ==
    /\ Len(word.originalText) >= MIN_TEXT_LENGTH
    /\ word.id.type = "string"

\* validateWordEntry: isValid.  The required fields are non-empty strings of at
\* least MIN_TEXT_LENGTH characters, the optional id is a string.
validateWordEntry(word) ==
    /\ \A text \in {word.originalText, word.translatedText} :
          text # <<>> /\ Len(text) >= MIN_TEXT_LENGTH
    /\ word.id.type = "string"

\* cleanAndValidateWords is called with an array
CleanBegins ==
    /\ dp.pc = "idle"
    /\ dp' = [pc |-> "cleaning", processedCount |-> 0, errors |-> 0, cleanedWords |-> <<>>]
    /\ UNCHANGED <<scrapeVars, settings, alarmVars, syncVars, req, ext, wait, msgs, tm, am, sw>>

\* one iteration of the loop over rawWords; cleanedWords keeps, next to each
\* cleaned word, the raw entry it was made from
CleanNextWord(word) ==
    /\ dp.pc = "cleaning"
    /\ dp.processedCount < MaxBatch
    /\ LET cleanedWord == cleanSingleWordEntry(word)
       IN  dp' = [dp EXCEPT
                    !.processedCount = @ + 1,
                    !.errors = IF ~cleanedWord.isNull /\ ~validateWordEntry(cleanedWord)
                               THEN @ + 1 ELSE @,
                    !.cleanedWords = IF ~cleanedWord.isNull /\ validateWordEntry(cleanedWord)
                                     THEN Append(@, [from |-> word, word |-> cleanedWord])
                                     ELSE @]
    /\ UNCHANGED <<scrapeVars, settings, alarmVars, syncVars, req, ext, wait, msgs, tm, am, sw>>

\* the loop is over: {success: true, words: cleanedWords, ...}
CleanReturns ==
    /\ dp.pc = "cleaning"
    /\ dp' = [dp EXCEPT !.pc = "returned"]
    /\ UNCHANGED <<scrapeVars, settings, alarmVars, syncVars, req, ext, wait, msgs, tm, am, sw>>

NextClean ==
    \/ CleanBegins
    \/ \E word \in RawEntries : CleanNextWord(word)
    \/ CleanReturns

SpecClean == InitIdle /\ [][NextClean]_vars

\* C19: every entry of the list cleanAndValidateWords returns has a non-empty
\* string originalText and translatedText; input entries that lack either field
\* and input entries that are not objects never appear in the output.
C19_OutputHasBothTexts ==
    dp.pc \in {"cleaning", "returned"} =>
        \A i \in 1..Len(dp.cleanedWords) :
            LET e == dp.cleanedWords[i]
            IN  /\ Len(e.word.originalText) > 0
                /\ Len(e.word.translatedText) > 0
                /\ e.from.kind = "object"
                /\ e.from.originalText.type # "undefined"
                /\ e.from.translatedText.type # "undefined"

\* a returned list with an entry whose originalText the cleaning has changed
C19_Witness ==
    /\ dp.pc = "returned"
    /\ Len(dp.cleanedWords) >= 1
    /\ dp.cleanedWords[1].from.originalText.chars # dp.cleanedWords[1].word.originalText

\* C20: originalText and translatedText of every returned entry have no leading
\* or trailing whitespace, no run of two or more whitespace characters, and at
\* most 5000 characters.
C20_TextsTrimmedAndNormalized ==
    dp.pc \in {"cleaning", "returned"} =>
        \A i \in 1..Len(dp.cleanedWords) :
            \A text \in {dp.cleanedWords[i].word.originalText,
                         dp.cleanedWords[i].word.translatedText} :
                /\ text[1] \notin Whitespace
                /\ text[Len(text)] \notin Whitespace
                /\ \A k \in 1..(Len(text) - 1) :
                      ~(text[k] \in Whitespace /\ text[k + 1] \in Whitespace)
                /\ Len(text) <= 5000

(***************************************************************************)
(* DataProcessor.removeDuplicates and mergeWithExistingData as             *)
(* processScrapedData calls them, modelled on their own.  The words are       *)
(* cleaned entries; their texts are made of colons so that different       *)
(* entries can have the same key string.                                   *)
(***************************************************************************)
MaxList == 2

\* cleaned word entries
Words ==
    [originalText : {<<":">>, <<":", ":">>}, translatedText : {<<":">>, <<":", ":">>},
     sourceLanguage : {"en", "es"}, targetLanguage : {"fr"}]

WordLists == UNION {[1..n -> Words] : n \in 0..MaxList}

Strategies == {"exact", "text_only", "language_pair"}

\* the key string of a word: JSON.stringify(word), or the template string
\* `${originalText}::${translatedText}` with, for language_pair,
\* `::${sourceLanguage}::${targetLanguage}` after it
Key(word, strategy) ==
    IF strategy = "exact"
    THEN <<"{">> \o word.originalText \o <<",">> \o word.translatedText \o <<",">>
             \o <<word.sourceLanguage, ",", word.targetLanguage, "}">>
    ELSE IF strategy = "text_only"
    THEN word.originalText \o <<":", ":">> \o word.translatedText
    ELSE word.originalText \o <<":", ":">> \o word.translatedText \o <<":", ":">>
             \o <<word.sourceLanguage>> \o <<":", ":">> \o <<word.targetLanguage>>

\* words.filter(word => !seen.has(key) && seen.add(key))
RECURSIVE FilterUnseen(_, _, _)
FilterUnseen(wordList, seen, strategy) ==
    IF wordList = <<>> THEN <<>>
    ELSE LET key == Key(Head(wordList), strategy)
         IN  IF key \in seen
             THEN FilterUnseen(Tail(wordList), seen, strategy)
             ELSE <<Head(wordList)>> \o FilterUnseen(Tail(wordList), seen \cup {key}, strategy)

\* a removal that keeps every word
removeNoDuplicates(wordList, strategy) == wordList

\* removeDuplicates(words, strategy).words
removeDuplicates(wordList, strategy) == FilterUnseen(wordList, {}, strategy)

\* the 'replace' strategy
mergeReplacing(newWords, existingWords) == newWords

\* mergeWithExistingData(newWords, existingWords, 'merge_unique').words
mergeWithExistingData(newWords, existingWords) ==
    removeDuplicates(existingWords \o newWords, "language_pair")

\* removeDuplicates is called
RemoveDuplicatesCalled(wordList, strategy) ==
    /\ dp.pc = "idle"
    /\ dp' = [pc |-> "deduped", words |-> wordList, strategy |-> strategy,
              result |-> removeDuplicates(wordList, strategy),
              existing |-> <<>>, merged |-> <<>>]
    /\ UNCHANGED <<scrapeVars, settings, alarmVars, syncVars, req, ext, wait, msgs, tm, am, sw>>

\* processScrapedData, step 3: the result of the language_pair removal is merged
\* into the stored list, which an earlier merge has left with one entry per key
MergeCalled(existing) ==
    /\ dp.pc = "deduped"
    /\ dp.strategy = "language_pair"
    /\ removeDuplicates(existing, "language_pair") = existing
    /\ dp' = [dp EXCEPT !.pc = "merged", !.existing = existing,
                        !.merged = mergeWithExistingData(dp.result, existing)]
    /\ UNCHANGED <<scrapeVars, settings, alarmVars, syncVars, req, ext, wait, msgs, tm, am, sw>>

NextDedup ==
    \/ \E wordList \in WordLists, strategy \in Strategies :
          RemoveDuplicatesCalled(wordList, strategy)
    \/ \E existing \in WordLists : MergeCalled(existing)

SpecDedup == InitIdle /\ [][NextDedup]_vars

\* C17: a 'merge_unique' merge loses no stored record: the merged list is the
\* stored list, in its order, followed by exactly those new entries whose
\* language-pair key was not in the stored list.
C17_MergeKeepsStoredRecords ==
    dp.pc = "merged" =>
        LET storedKeys == {Key(dp.existing[i], "language_pair") : i \in 1..Len(dp.existing)}
        IN  dp.merged = dp.existing
                \o SelectSeq(dp.result, LAMBDA w : Key(w, "language_pair") \notin storedKeys)

\* a merge in which a new entry was already stored and another one was not
C17_Witness ==
    /\ dp.pc = "merged"
    /\ Len(dp.existing) >= 1
    /\ Len(dp.result) = 2
    /\ Len(dp.merged) = Len(dp.existing) + 1

\* C18: for exact, text_only and language_pair the list removeDuplicates returns
\* has exactly one entry for every key of the input, and no two of its entries
\* share a key.
C18_OneEntryPerKey ==
    dp.pc \in {"deduped", "merged"} =>
        LET keysIn == {Key(dp.words[i], dp.strategy) : i \in 1..Len(dp.words)}
            keysOut == {Key(dp.result[i], dp.strategy) : i \in 1..Len(dp.result)}
        IN  /\ keysOut = keysIn
            /\ Cardinality(keysOut) = Len(dp.result)
            /\ \A i \in 1..Len(dp.result) : \E j \in 1..Len(dp.words) : dp.result[i] = dp.words[j]

\* a removal that dropped the second of two words with the same key
C18_Witness ==
    /\ dp.pc = "deduped"
    /\ Len(dp.words) = 2
    /\ Len(dp.result) = 1

C22_TabsOpenOnGoogleTranslate ==
    \A t \in tabs :
        t.url \in {"https://translate.google.com", "https://translate.google.com/saved"}

(***************************************************************************)
(* TabManager.createAndNavigateToGoogleTranslate (tab-manager.js),         *)
(* modelled on its own: the first call and the calls it makes of itself.   *)
(* A URL is the string together with what new URL(url) makes of it.        *)
(***************************************************************************)
\* calls of the method, the first one included, that are followed
MaxCalls == 5
\* TAB_CONFIG.MAX_RETRIES
TAB_MAX_RETRIES == 3

\* options.url: left out (the starred-words page), another scheme, another host,
\* and a string new URL() throws on
UrlOptions ==
    { [href |-> "https://translate.google.com/saved", protocol |-> "https:",
       hostname |-> "translate.google.com"],
      [href |-> "http://translate.google.com/saved", protocol |-> "http:",
       hostname |-> "translate.google.com"],
      [href |-> "https://example.com/saved", protocol |-> "https:",
       hostname |-> "example.com"],
      [href |-> "saved words", protocol |-> "", hostname |-> ""] }

\* isValidGoogleTranslateUrl
isValidGoogleTranslateUrl(url) ==
    url.hostname = "translate.google.com" /\ url.protocol = "https:"

\* the catch of one call: config.retryCount++ and the method calls itself with
\* config as its options; the new call builds its own config, retryCount: 0
RetryOrFail(t, outcome) ==
    LET tried == [t EXCEPT !.history = Append(@, outcome)]
    IN  IF t.retryCount < TAB_MAX_RETRIES
        THEN [tried EXCEPT !.pc = "called", !.calls = @ + 1, !.retryCount = 0]
        ELSE [tried EXCEPT !.pc = "returned", !.success = FALSE]

\* createAndNavigateToGoogleTranslate({url}) is called from outside
CreateAndNavigateCalled(url) ==
    /\ tm.pc = "idle"
    /\ tm' = [pc |-> "called", url |-> url, retryCount |-> 0, calls |-> 1,
              history |-> <<>>, opened |-> 0, success |-> FALSE]
    /\ UNCHANGED <<scrapeVars, settings, alarmVars, syncVars, req, ext, wait, msgs, dp, am, sw>>

\* a call runs up to its first await: the URL check, then chrome.tabs.create
CallValidatesUrl ==
    /\ tm.pc = "called"
    /\ tm' = IF isValidGoogleTranslateUrl(tm.url)
             THEN [tm EXCEPT !.pc = "opening"]
             ELSE RetryOrFail(tm, "invalid URL")
    /\ tm'.calls <= MaxCalls
    /\ UNCHANGED <<scrapeVars, settings, alarmVars, syncVars, req, ext, wait, msgs, dp, am, sw>>

\* createHiddenTab and waitForPageLoad of a call settle: the tab is not created,
\* the page does not load in time, or it loads
TabAttemptSettles(outcome) ==
    /\ tm.pc = "opening"
    /\ tm' = IF outcome = "Failed to create hidden tab"
             THEN RetryOrFail(tm, outcome)
             ELSE IF outcome = "Page load failed"
             THEN RetryOrFail([tm EXCEPT !.opened = @ + 1], outcome)
             ELSE [tm EXCEPT !.opened = @ + 1, !.pc = "returned", !.success = TRUE,
                             !.history = Append(@, outcome)]
    /\ tm'.calls <= MaxCalls
    /\ UNCHANGED <<scrapeVars, settings, alarmVars, syncVars, req, ext, wait, msgs, dp, am, sw>>

SpecTab ==
    /\ InitIdle
    /\ [][\/ \E url \in UrlOptions : CreateAndNavigateCalled(url)
          \/ CallValidatesUrl
          \/ \E outcome \in {"Failed to create hidden tab", "Page load failed", "loaded"} :
                TabAttemptSettles(outcome)]_vars

\* C28: createAndNavigateToGoogleTranslate retries a failed tab creation or page
\* load at most MAX_RETRIES (3) times and then returns a failure result with
\* success=false; it terminates, also when the URL is invalid or every page load
\* fails.
C28_AtMostThreeRetriesThenFailure ==
    tm.pc # "idle" =>
        /\ tm.calls <= 1 + 3
        /\ (tm.calls = 1 + 3 /\ Len(tm.history) = tm.calls /\ ~tm.success) =>
              tm.pc = "returned"

\* C26: a settings update written by handleSettingsUpdate is not undone by a
\* scrape running at the same time: once the update has been answered as stored
\* and no pipeline is updating its statistics, the stored isEnabled,
\* scrapeInterval, googleSheetsId and autoSync are those of the update.
C26_SettingsUpdateNotUndone ==
    ( /\ resp.sent /\ resp.success /\ resp.dataSuccess
      /\ apc["handler"] = "done"
      /\ \A r \in Runs : pc[r] \notin {"statsRead", "statsWrite"} ) =>
        /\ settings.isEnabled = aset["handler"].isEnabled
        /\ settings.scrapeInterval = aset["handler"].scrapeInterval
        /\ settings.googleSheetsId = aset["handler"].googleSheetsId
        /\ settings.autoSync = aset["handler"].autoSync

(***************************************************************************)
(* StarredWordsExtractor.findElementsWithFallback (content-script.js), as  *)
(* waitForStarredWords calls it: on the container selectors of the three   *)
(* groups, with the document as parent.  The document is the sequence of   *)
(* its elements in document order; an element is the set of container      *)
(* selectors it matches.                                                   *)
(***************************************************************************)
\* elements of a document
MaxElements == 3

\* SELECTORS.primary.container, .secondary.container, .emergency.container, in
\* the order of the object literal passed by checkForWords
ContainerSelectorGroups ==
    << << "[data-term-id]", "[jsname][data-term]", ".starred-word-item",
          ".saved-translation-item" >>,
       << "c-wiz[data-node-index] > div", "[role=\"listitem\"]", ".translation-entry",
          "[jsaction*=\"click\"]" >>,
       << "div[jsname]", "[data-hveid] > div", "c-wiz > div > div" >> >>

\* the elements a page can hold: which of the selectors each one matches
ElementKinds ==
    { {},
      {"[data-term-id]"},
      {".saved-translation-item", "[role=\"listitem\"]"},
      {"[data-term-id]", "[role=\"listitem\"]", "div[jsname]"},
      {"[jsaction*=\"click\"]", "div[jsname]"},
      {"[role=\"listitem\"]"},
      {"c-wiz > div > div"} }

\* parent.querySelectorAll(selector): the matching elements, in document order
querySelectorAll(selector, parent) ==
    SelectSeq([i \in 1..Len(parent) |-> i], LAMBDA i : selector \in parent[i])

\* the groups taken last to first
findElementsLastGroupFirst(selectorGroups, parent) ==
    LET n == Len(selectorGroups)
        trySelector[g \in 1..(n + 1), k \in 1..5] ==
            IF g > n THEN <<>>
            ELSE IF k > Len(selectorGroups[n + 1 - g]) THEN trySelector[g + 1, 1]
            ELSE LET elements == querySelectorAll(selectorGroups[n + 1 - g][k], parent)
                 IN  IF Len(elements) > 0 THEN elements ELSE trySelector[g, k + 1]
    IN  trySelector[1, 1]

\* findElementsWithFallback: for each group, for each selector of the group,
\* return the elements of the first selector that has any; [] after the loops
findElementsWithFallback(selectorGroups, parent) ==
    LET n == Len(selectorGroups)
        trySelector[g \in 1..(n + 1), k \in 1..5] ==
            IF g > n THEN <<>>
            ELSE IF k > Len(selectorGroups[g]) THEN trySelector[g + 1, 1]
            ELSE LET elements == querySelectorAll(selectorGroups[g][k], parent)
                 IN  IF Len(elements) > 0 THEN elements ELSE trySelector[g, k + 1]
    IN  trySelector[1, 1]

\* a page is loaded in the tab: one more element is in the document
PageGrows(kind) ==
    /\ ext.pc \in {"idle", "page", "checked"}
    /\ LET document == IF ext.pc = "idle" THEN <<>> ELSE ext.document
       IN  /\ Len(document) < MaxElements
           /\ ext' = [pc |-> "page", document |-> Append(document, kind), containers |-> <<>>]
    /\ UNCHANGED <<scrapeVars, settings, alarmVars, syncVars, req, wait, msgs, dp, tm, am, sw>>

\* checkForWords: the lookup of the word containers in the document
CheckForWords ==
    /\ ext.pc = "page"
    /\ ext' = [ext EXCEPT !.pc = "checked",
                          !.containers = findElementsWithFallback(ContainerSelectorGroups,
                                                                  ext.document)]
    /\ UNCHANGED <<scrapeVars, settings, alarmVars, syncVars, req, wait, msgs, dp, tm, am, sw>>

SpecLookup ==
    /\ InitIdle
    /\ [][(\E kind \in ElementKinds : PageGrows(kind)) \/ CheckForWords]_vars

\* C23: findElementsWithFallback returns the matches of the first selector, in
\* the order primary, secondary, emergency (and the order of the list within a
\* group), that matches at least one element, and the empty list only if no
\* selector of any group matches.
C23_FirstMatchingSelectorInPriorityOrder ==
    ext.pc = "checked" =>
        LET groups == ContainerSelectorGroups
            Matches(g, k) == { i \in 1..Len(ext.document) : groups[g][k] \in ext.document[i] }
            Places == { <<g, k>> \in (1..3) \X (1..4) : k <= Len(groups[g]) }
            Matching == { p \in Places : Matches(p[1], p[2]) # {} }
            Earlier(p, q) == p[1] < q[1] \/ (p[1] = q[1] /\ p[2] < q[2])
        IN  /\ (ext.containers = <<>>) <=> (Matching = {})
            /\ Matching # {} =>
                  \E p \in Matching :
                      /\ \A q \in Matching : q # p => Earlier(p, q)
                      /\ { ext.containers[i] : i \in 1..Len(ext.containers) } = Matches(p[1], p[2])
                      /\ Len(ext.containers) = Cardinality(Matches(p[1], p[2]))

\* the document has elements for a primary and for a secondary selector and one
\* that matches nothing; the lookup returned the element of the primary selector
C23_Witness ==
    /\ ext.pc = "checked"
    /\ ext.document = << {"[role=\"listitem\"]"}, {}, {"[data-term-id]"} >>
    /\ ext.containers = <<3>>

(***************************************************************************)
(* The end of executeScrapingWithController for pipelines whose scrape     *)
(* succeeded: processScrapedData reads the stored words and merges, and    *)
(* storeScrapedData replaces the stored object.  Every pipeline has its    *)
(* own ScrapingController, so pipelines overlap.  The words are cleaned    *)
(* entries with one translation, so that the key of an entry tells it from *)
(* every other.                                                            *)
(***************************************************************************)
\* chrome.storage.local holds 'scrapedWords' from earlier scrapes (or nothing)
StorageHolds(existing) ==
    /\ sw.pc = "idle"
    /\ Len(existing) <= 1
    /\ sw' = [pc |-> "active", before |-> existing, stored |-> existing,
              run |-> [r \in Runs |-> [at |-> "idle", scraped |-> <<>>, data |-> <<>>]]]
    /\ UNCHANGED <<scrapeVars, settings, alarmVars, syncVars, req, ext, wait, msgs, dp, tm, am>>

\* processScrapedData of pipeline r, steps 1 and 2: the scraped words are cleaned
\* and the duplicates removed; getExistingScrapedData is called
ScrapedDataProcessed(r, wordList) ==
    /\ sw.pc = "active"
    /\ sw.run[r].at = "idle"
    /\ sw' = [sw EXCEPT !.run[r].at = "reading",
                        !.run[r].scraped = removeDuplicates(wordList, "language_pair")]
    /\ UNCHANGED <<scrapeVars, settings, alarmVars, syncVars, req, ext, wait, msgs, dp, tm, am>>

\* the get of pipeline r resolves with the stored words; step 3: the merge;
\* storeScrapedData calls chrome.storage.local.set({scrapedWords: ...})
ExistingDataRead(r) ==
    /\ sw.pc = "active"
    /\ sw.run[r].at = "reading"
    /\ sw' = [sw EXCEPT !.run[r].at = "storing",
                        !.run[r].data = mergeWithExistingData(sw.run[r].scraped, sw.stored)]
    /\ UNCHANGED <<scrapeVars, settings, alarmVars, syncVars, req, ext, wait, msgs, dp, tm, am>>

\* the set of pipeline r resolves: processedData.words are the stored words
ScrapedDataStored(r) ==
    /\ sw.pc = "active"
    /\ sw.run[r].at = "storing"
    /\ sw' = [sw EXCEPT !.run[r].at = "done", !.stored = sw.run[r].data]
    /\ UNCHANGED <<scrapeVars, settings, alarmVars, syncVars, req, ext, wait, msgs, dp, tm, am>>

SpecStore ==
    /\ InitIdle
    /\ [][\/ \E existing \in {l \in WordLists : \A i \in 1..Len(l) : l[i].translatedText = <<":">>} :
                StorageHolds(existing)
          \/ \E r \in Runs :
                \/ \E wordList \in {l \in WordLists : /\ Len(l) <= 1
                                                      /\ \A i \in 1..Len(l) : l[i].translatedText = <<":">>} :
                      ScrapedDataProcessed(r, wordList)
                \/ ExistingDataRead(r)
                \/ ScrapedDataStored(r)]_vars

\* C27: when pipelines overlap, then after all of them have stored their results
\* the stored word list holds every word that was stored before and every valid
\* word extracted by any of them.
C27_OverlappingPipelinesKeepAllWords ==
    ( /\ sw.pc = "active"
      /\ \A r \in Runs : sw.run[r].at \in {"idle", "done"} ) =>
        LET InList(l) == { l[i] : i \in 1..Len(l) }
        IN  /\ InList(sw.before) \subseteq InList(sw.stored)
            /\ \A r \in Runs : sw.run[r].at = "done" =>
                  InList(sw.run[r].scraped) \subseteq InList(sw.stored)

(***************************************************************************)
(* AuthManager (auth.js): getAuthToken, _performAuthentication and         *)
(* clearAuthToken on one AuthManager object, called from message handlers  *)
(* that overlap.  A step is what runs between two awaits of storage, the   *)
(* identity service or the token-info endpoint; the continuations of       *)
(* getAuthToken after `await this.authPromise` run in the step that        *)
(* settles the promise.  chrome.storage.local serves its calls in the      *)
(* order they were made (ops: the callers of the calls not yet served,     *)
(* 0 for clearAuthToken).  Tokens are numbered: 1 is a token stored by an  *)
(* earlier session, 2, 3, ... are the ones the identity service issues.    *)
(***************************************************************************)
\* calls of getAuthToken that are followed
MaxAuthCalls == 2

\* the promise of authentication p settles: _performAuthentication has set
\* currentState; every getAuthToken awaiting it continues: the one that created
\* the promise sets authPromise = null, and on a rejection every one of them
\* sets authPromise = null and currentState = ERROR
AuthPromiseSettles(m, p, ok, token) ==
    [m EXCEPT !.perf[p].at = IF ok THEN "resolved" ELSE "rejected",
              !.perf[p].token = token,
              !.currentState = IF ok THEN "authenticated" ELSE "error",
              !.authPromise = 0,
              !.call = [c \in DOMAIN m.call |->
                          IF m.call[c].at = "waiting" /\ m.call[c].on = p
                          THEN [m.call[c] EXCEPT !.at = IF ok THEN "returned" ELSE "threw",
                                                 !.token = token]
                          ELSE m.call[c]]]

\* new AuthManager(); the storage holds no token or one stored earlier
AuthManagerConstructed(stored) ==
    /\ am.pc = "idle"
    /\ auth' = stored
    /\ am' = [pc |-> "active", currentState |-> "unauthenticated", authPromise |-> 0,
              tokenInfo |-> FALSE, stored |-> IF stored.hasToken THEN 1 ELSE 0,
              storedBy |-> 0, issued |-> 0, clear |-> "idle", ops |-> <<>>,
              call |-> [c \in 1..MaxAuthCalls |->
                          [at |-> "idle", on |-> 0, own |-> FALSE, forceRefresh |-> FALSE,
                           token |-> 0]],
              perf |-> [p \in 1..MaxAuthCalls |->
                          [at |-> "unused", forceRefresh |-> FALSE, token |-> 0,
                           cached |-> "", readAt |-> 0, readExpiry |-> 0,
                           removed |-> FALSE, lookup |-> "", expiryTime |-> 0,
                           beforeClear |-> FALSE]]]
    /\ UNCHANGED <<scrapeVars, settings, alarmVars, sync, sres, requests, now, words,
                   req, ext, wait, msgs, dp, tm, sw>>

\* getAuthToken({forceRefresh}) up to its await: it awaits the promise there is,
\* or calls _performAuthentication, which runs up to its first await (the
\* storage get of _getCachedToken, or chrome.identity.getAuthToken)
GetAuthTokenCalled(c, forceRefresh) ==
    /\ am.pc = "active"
    /\ am.call[c].at = "idle"
    /\ \A b \in 1..(c - 1) : am.call[b].at # "idle"
    /\ IF am.authPromise # 0
       THEN am' = [am EXCEPT !.call[c] = [at |-> "waiting", on |-> am.authPromise,
                                          own |-> FALSE, forceRefresh |-> forceRefresh,
                                          token |-> 0]]
       ELSE am' = [am EXCEPT !.call[c] = [at |-> "waiting", on |-> c, own |-> TRUE,
                                          forceRefresh |-> forceRefresh, token |-> 0],
                             !.authPromise = c,
                             !.ops = IF forceRefresh THEN @ ELSE Append(@, c),
                             !.currentState = "authenticating",
                             !.perf[c].at = IF forceRefresh THEN "identity" ELSE "cache",
                             !.perf[c].forceRefresh = forceRefresh]
    /\ UNCHANGED <<scrapeVars, settings, alarmVars, syncVars, req, ext, wait, msgs, dp, tm, sw>>

\* _getCachedToken: the get resolves.  No token: null, and the identity service
\* is asked.  now >= expiryTime - buffer: _clearStoredToken is called.  Else the
\* stored token is returned and the promise resolves with it.
CachedTokenRead(p) ==
    /\ am.pc = "active"
    /\ am.perf[p].at = "cache"
    /\ Head(am.ops) = p
    /\ IF ~(auth.hasToken /\ auth.hasInfo)
       THEN am' = [am EXCEPT !.perf[p].at = "identity", !.perf[p].cached = "none",
                             !.ops = Tail(@)]
       ELSE IF now >= auth.expiryTime - TOKEN_EXPIRY_BUFFER
       THEN am' = [am EXCEPT !.perf[p].at = "clearing", !.perf[p].cached = "expired",
                             !.perf[p].readAt = now, !.perf[p].readExpiry = auth.expiryTime,
                             !.ops = Append(Tail(@), p)]
       ELSE am' = AuthPromiseSettles([am EXCEPT !.tokenInfo = TRUE,
                                                !.ops = Tail(@),
                                                !.perf[p].cached = "valid",
                                                !.perf[p].readAt = now,
                                                !.perf[p].readExpiry = auth.expiryTime],
                                     p, TRUE, am.stored)
    /\ UNCHANGED <<scrapeVars, settings, alarmVars, syncVars, req, ext, wait, msgs, dp, tm, sw>>

\* _getCachedToken: the remove of the expired token resolves; null is returned
\* and the identity service is asked
ExpiredTokenCleared(p) ==
    /\ am.pc = "active"
    /\ am.perf[p].at = "clearing"
    /\ Head(am.ops) = p
    /\ auth' = NoAuthToken
    /\ am' = [am EXCEPT !.perf[p].at = "identity", !.perf[p].removed = TRUE,
                        !.stored = 0, !.storedBy = 0, !.ops = Tail(@)]
    /\ UNCHANGED <<scrapeVars, settings, alarmVars, sync, sres, requests, now, words,
                   req, ext, wait, msgs, dp, tm, sw>>

\* _requestNewToken: chrome.identity.getAuthToken settles with a token or an
\* error; with a token, _validateAndStoreToken asks the token-info endpoint
IdentityResolves(p, ok) ==
    /\ am.pc = "active"
    /\ am.perf[p].at = "identity"
    /\ am' = IF ok
             THEN [am EXCEPT !.perf[p].at = "lookup", !.perf[p].token = am.issued + 2,
                             !.issued = @ + 1]
             ELSE AuthPromiseSettles(am, p, FALSE, 0)
    /\ UNCHANGED <<scrapeVars, settings, alarmVars, syncVars, req, ext, wait, msgs, dp, tm, sw>>

\* a validation that does not compare the audience
TokenInfoSettlesUnchecked(p, outcome) ==
    /\ am.pc = "active"
    /\ am.perf[p].at = "lookup"
    /\ am' = IF outcome \in {"aud is CLIENT_ID", "aud is another client"}
             THEN [am EXCEPT !.perf[p].at = "storing", !.perf[p].lookup = outcome,
                             !.perf[p].expiryTime = now + TOKEN_EXPIRY_BUFFER + 2,
                             !.ops = Append(@, p)]
             ELSE AuthPromiseSettles([am EXCEPT !.perf[p].lookup = outcome], p, FALSE, 0)
    /\ UNCHANGED <<scrapeVars, settings, alarmVars, syncVars, req, ext, wait, msgs, dp, tm, sw>>

\* _validateAndStoreToken: _getTokenInfo settles, with the token's info or with
\* an error.  aud === CLIENT_ID: expiryTime = Date.now() + expires_in and the
\* storage set is called; else the error goes up through _performAuthentication
TokenInfoSettles(p, outcome) ==
    /\ am.pc = "active"
    /\ am.perf[p].at = "lookup"
    /\ am' = IF outcome = "aud is CLIENT_ID"
             THEN [am EXCEPT !.perf[p].at = "storing", !.perf[p].lookup = outcome,
                             !.perf[p].expiryTime = now + TOKEN_EXPIRY_BUFFER + 2,
                             !.ops = Append(@, p)]
             ELSE AuthPromiseSettles([am EXCEPT !.perf[p].lookup = outcome], p, FALSE, 0)
    /\ UNCHANGED <<scrapeVars, settings, alarmVars, syncVars, req, ext, wait, msgs, dp, tm, sw>>

\* _validateAndStoreToken: the set resolves; this.tokenInfo is set and
\* _performAuthentication returns the token
TokenStored(p) ==
    /\ am.pc = "active"
    /\ am.perf[p].at = "storing"
    /\ Head(am.ops) = p
    /\ auth' = StoredToken(am.perf[p].expiryTime)
    /\ am' = AuthPromiseSettles([am EXCEPT !.tokenInfo = TRUE, !.stored = am.perf[p].token,
                                           !.storedBy = p, !.ops = Tail(@)],
                                p, TRUE, am.perf[p].token)
    /\ UNCHANGED <<scrapeVars, settings, alarmVars, sync, sres, requests, now, words,
                   req, ext, wait, msgs, dp, tm, sw>>

\* clearAuthToken up to the remove of _clearStoredToken, which it calls (before
\* it, with this.tokenInfo set, chrome.identity.removeCachedAuthToken)
ClearAuthTokenCalled ==
    /\ am.pc = "active"
    /\ am.clear = "idle"
    /\ am' = [am EXCEPT !.clear = "removing", !.ops = Append(@, 0)]
    /\ UNCHANGED <<scrapeVars, settings, alarmVars, syncVars, req, ext, wait, msgs, dp, tm, sw>>

\* clearAuthToken: the remove resolves; the state is reset and true is returned
ClearAuthTokenReturns ==
    /\ am.pc = "active"
    /\ am.clear = "removing"
    /\ Head(am.ops) = 0
    /\ auth' = NoAuthToken
    /\ am' = [am EXCEPT !.clear = "returned", !.stored = 0, !.storedBy = 0, !.ops = Tail(@),
                        !.currentState = "unauthenticated", !.tokenInfo = FALSE,
                        !.authPromise = 0,
                        !.perf = [p \in DOMAIN am.perf |->
                                    [am.perf[p] EXCEPT !.beforeClear = am.perf[p].at # "unused"]]]
    /\ UNCHANGED <<scrapeVars, settings, alarmVars, sync, sres, requests, now, words,
                   req, ext, wait, msgs, dp, tm, sw>>

SpecAuth ==
    /\ InitIdle
    /\ [][\/ \E stored \in {NoAuthToken} \cup
                  {StoredToken(TOKEN_EXPIRY_BUFFER + t) : t \in 0..2} :
                AuthManagerConstructed(stored)
          \/ \E c \in 1..MaxAuthCalls :
                \/ \E forceRefresh \in BOOLEAN : GetAuthTokenCalled(c, forceRefresh)
                \/ CachedTokenRead(c)
                \/ ExpiredTokenCleared(c)
                \/ \E ok \in BOOLEAN : IdentityResolves(c, ok)
                \/ \E outcome \in {"aud is CLIENT_ID", "aud is another client", "lookup failed"} :
                      TokenInfoSettles(c, outcome)
                \/ TokenStored(c)
          \/ ClearAuthTokenCalled
          \/ ClearAuthTokenReturns
          \/ Tick]_vars

(***************************************************************************)
(* Properties of the AuthManager (SpecAuth).                               *)
(***************************************************************************)
\* C24: at most one _performAuthentication is in progress at any time; a
\* getAuthToken call made while one is in progress waits for it and gets its
\* token or its error, and the identity service is not asked a second time.
C24_OneAuthenticationInProgress ==
    am.pc = "active" =>
        /\ Cardinality({ p \in DOMAIN am.perf :
                           am.perf[p].at \in {"cache", "clearing", "identity", "lookup",
                                              "storing"} }) <= 1
        /\ \A c \in DOMAIN am.call :
              (am.call[c].at = "waiting" /\ ~am.call[c].own) =>
                  \A p \in DOMAIN am.perf :
                      am.perf[p].at \in {"cache", "clearing", "identity", "lookup", "storing"}
                          => am.call[c].on = p

\* C25: once clearAuthToken has returned true, a token is in storage only when
\* a getAuthToken call that started after the clear has stored it; an
\* authentication that was in progress when the clear ran stores none.
C25_NoTokenAfterClear ==
    (am.pc = "active" /\ am.clear = "returned" /\ auth.hasToken) =>
        \E p \in DOMAIN am.perf : am.storedBy = p /\ ~am.perf[p].beforeClear

\* C29: a token is written to storage only after the token-info lookup for it
\* has succeeded with an audience equal to the client ID; when the lookup fails
\* or the audience differs, nothing is stored, the getAuthToken calls waiting
\* for the authentication reject, and the auth state becomes ERROR.
C29_TokenStoredOnlyAfterValidation ==
    [][am.pc = "active" =>
          /\ (auth' # auth /\ auth'.hasToken) =>
                \E p \in DOMAIN am.perf :
                    /\ am'.storedBy = p
                    /\ am'.stored = am.perf[p].token
                    /\ am.perf[p].lookup = "aud is CLIENT_ID"
          /\ \A p \in DOMAIN am.perf :
                ( /\ am.perf[p].at = "lookup"
                  /\ am'.perf[p].at # "lookup"
                  /\ am'.perf[p].lookup # "aud is CLIENT_ID" ) =>
                    /\ auth' = auth
                    /\ am'.perf[p].at = "rejected"
                    /\ am'.currentState = "error"
                    /\ am.call[p].at = "waiting" /\ am'.call[p].at = "threw"
                    /\ \A c \in DOMAIN am.call :
                          (am.call[c].at = "waiting" /\ am.call[c].on = p) =>
                              am'.call[c].at = "threw"]_vars

\* the token-info lookup reported another client's audience: the call threw,
\* the state is ERROR and no token is stored
C29_Witness ==
    /\ am.pc = "active"
    /\ am.perf[1].lookup = "aud is another client"
    /\ am.call[1].at = "threw"
    /\ am.currentState = "error"
    /\ ~auth.hasToken

\* C30: a getAuthToken call returns a stored token, without a new one being
\* requested, only if its forceRefresh is not set and the time the token was
\* read at is earlier than its expiry time minus the five-minute buffer; a
\* stored token found past that point is removed and a new token is requested.
C30_StoredTokenOnlyWhenFreshAndNotForced ==
    am.pc = "active" =>
        /\ \A c \in DOMAIN am.call :
              ( /\ am.call[c].at = "returned"
                /\ am.perf[am.call[c].on].lookup = "" ) =>
                  /\ ~am.call[c].forceRefresh
                  /\ am.perf[am.call[c].on].readAt + TOKEN_EXPIRY_BUFFER
                        < am.perf[am.call[c].on].readExpiry
        /\ \A p \in DOMAIN am.perf :
              ( /\ am.perf[p].readExpiry > 0
                /\ am.perf[p].readAt + TOKEN_EXPIRY_BUFFER >= am.perf[p].readExpiry ) =>
                  /\ am.perf[p].at # "resolved" => am.perf[p].lookup # "aud is CLIENT_ID" \/ am.perf[p].at = "storing"
                  /\ am.perf[p].at = "resolved" => am.perf[p].lookup = "aud is CLIENT_ID"
                  /\ am.perf[p].at # "clearing" => am.perf[p].removed

(***************************************************************************)
(* Properties of a rejected settings update (SpecSettings).                *)
(***************************************************************************)
\* C31: when handleSettingsUpdate rejects the update because the spreadsheet ID
\* is invalid, the response delivered to the sender of 'settingsUpdated' has
\* success = false.
C31_RejectionReachesThePopup ==
    ( /\ resp.sent
      /\ apc["handler"] = "done"
      /\ SettingsRejected(aset["handler"]) ) => ~resp.success

\* C32: a save whose update the background rejects for its spreadsheet ID leaves
\* the stored settings and the scraping alarm as they were before the user
\* pressed save: neither the popup's storage write nor the handler changes them.
C32_RejectedUpdateChangesNothing ==
    [][( /\ (PopupSetResolves \/ HandlerGetResolves)
         /\ SettingsRejected(aset'["handler"]) ) =>
            /\ settings' = settings
            /\ alarm' = alarm]_vars

====
